---- MODULE Spec2Model ----
(***************************************************************************)
(* A model of the BurzContent REST server: the request handlers of the     *)
(* packages handlers, users, user, articles, comments and docs and of the  *)
(* main program, the services behind them, and the library behaviour they  *)
(* rely on (uuid.Parse / uuid.NewV7, the JSON decoder, the struct          *)
(* validator and http.ResponseWriter).                                     *)
(*                                                                         *)
(* Every handler is one action: it takes a request (path identifier,       *)
(* body) and an environment (does uuid.NewV7 fail, is the connection       *)
(* broken) and leaves the response in w.  Where the source tree holds      *)
(* several revisions of a handler, its action serves the request with any  *)
(* one of them.  The code keeps no state between requests; nextID stands   *)
(* for the progress of the UUIDv7 generator, served counts the requests,   *)
(* and hist / prior are history variables that remember the last           *)
(* successful Create and the first successful Delete so that the           *)
(* life-cycle claims can be stated.  route belongs to the second           *)
(* specification, RouteSpec: a method and a path that the router of one of *)
(* the route tables serves, by calling a function that a build can hold    *)
(* under the name the table registers, or by answering 404 or 405 itself.  *)
(* calls and validate belong to the third specification, ConcSpec: the     *)
(* server that Server.MountHandlers sets up runs every request in a        *)
(* goroutine of its own, and the steps of the handlers that touch what the *)
(* goroutines share (the package-level validator, the UUID generator,      *)
(* standard output) interleave.                                            *)
(***************************************************************************)
EXTENDS Integers, Sequences, FiniteSets, TLC

VARIABLES req, w, ret, stdout, nextID, served, hist, prior, route,
          calls, validate

vars == <<req, w, ret, stdout, nextID, served, hist, prior, route,
          calls, validate>>

(***************************************************************************)
(* Bounds                                                                  *)
(***************************************************************************)
\* number of requests (handler invocations and service calls) in a behaviour
MaxRequests == 2

\* number of requests that the server serves at the same time
MaxInFlight == 2

(***************************************************************************)
(* HTTP status codes (net/http)                                            *)
(***************************************************************************)
StatusOK == 200
StatusCreated == 201
StatusNoContent == 204
StatusBadRequest == 400
StatusNotFound == 404
StatusMethodNotAllowed == 405
StatusUnprocessableEntity == 422
StatusInternalServerError == 500

(***************************************************************************)
(* github.com/google/uuid                                                  *)
(* A UUID value is represented by its canonical text, which is also what   *)
(* UUID.String() and the JSON encoding produce.                            *)
(***************************************************************************)
Nil == "00000000-0000-0000-0000-000000000000"

ClientUUID == "cb676a46-66fd-4dfb-b839-443f2e6c0b60"

OtherUUID == "4f3e23f4-d5d9-4886-90de-f07a93d3c7f5"

\* the n-th identifier produced by uuid.NewV7 (time ordered, never repeated)
V7(n) ==
    "01930000-0000-7000-8000-00000000000"
        \o <<"1", "2", "3", "4", "5", "6", "7", "8", "9">>[n]

\* uuid.Parse: accepts the 36-character form, urn:uuid:<36>, {<36>}
\* and nothing else that the requests of this model contain; hexadecimal
\* digits are case-insensitive on input
Parse(s) ==
    LET KnownUUIDs == {Nil, ClientUUID, OtherUUID}
                          \cup {V7(n) : n \in 1..MaxRequests}
        Lower(t) == IF t = "CB676A46-66FD-4DFB-B839-443F2E6C0B60"
                       THEN ClientUUID ELSE t
        hit == {u \in KnownUUIDs :
                    \/ Lower(s) = u
                    \/ s = "urn:uuid:" \o u
                    \/ s = "{" \o u \o "}"}
    IN IF hit # {}
          THEN [err |-> FALSE, uuid |-> CHOOSE u \in hit : TRUE]
          ELSE [err |-> TRUE, uuid |-> Nil]

\* uuid.NewV7 when n identifiers were generated before
NewV7(n, genFail) ==
    IF genFail THEN [err |-> TRUE, uuid |-> Nil]
               ELSE [err |-> FALSE, uuid |-> V7(n + 1)]

(***************************************************************************)
(* Request bodies.  A JSON value is [t, v] with t its JSON type and v its  *)
(* text; a body is absent, not JSON at all, the literal null (the last of  *)
(* Bodies), or an object.                                                  *)
(***************************************************************************)
JStr(s) == [t |-> "string", v |-> s]

Bodies == LET NoObj == [none |-> JStr("")] IN <<
    [kind |-> "absent", obj |-> NoObj],
    [kind |-> "garbage", obj |-> NoObj],
    [kind |-> "object",
     obj |-> [name |-> JStr("Jane Doe"),
              email |-> JStr("jane.doe@example.com"),
              content |-> JStr("Nice read")]],
    [kind |-> "object",
     obj |-> [name |-> JStr("Jo"), email |-> JStr("not-an-email")]],
    [kind |-> "object",
     obj |-> [name |-> JStr(""), email |-> JStr("jane@example.com")]],
    [kind |-> "object",
     obj |-> [name |-> JStr("Jane Doe"), email |-> JStr("jane@example.com"),
              id |-> JStr(ClientUUID), title |-> JStr("On Go"),
              author |-> JStr("Jane Doe"),
              published |-> [t |-> "bool", v |-> "true"]]],
    [kind |-> "object",
     obj |-> [name |-> JStr("Jane Doe"), email |-> [t |-> "number", v |-> "5"],
              id |-> JStr("not-a-uuid")]],
    [kind |-> "object",
     obj |-> [name |-> JStr("Jo"), email |-> JStr("jane@example.com")]],
    [kind |-> "object", obj |-> [title |-> JStr("")]],
    [kind |-> "null", obj |-> NoObj] >>

BodyIx == 1..Len(Bodies)

\* the body that satisfies every constraint of every resource kind
GoodBody ==
    CHOOSE i \in BodyIx :
        /\ Bodies[i].kind = "object"
        /\ "content" \in DOMAIN Bodies[i].obj

(***************************************************************************)
(* encoding/json: Decoder.Decode into a struct.  schema maps a JSON key to *)
(* the Go field it fills and that field's type; keys the struct does not   *)
(* declare are skipped, a value of the wrong JSON type or an identifier    *)
(* that uuid.Parse rejects is an error; the literal null is no error and   *)
(* leaves the struct as it was.                                            *)
(***************************************************************************)
Decode(body, zero, schema) ==
    IF body.kind = "null"
       THEN [err |-> FALSE, val |-> zero]
    ELSE IF body.kind # "object"
       THEN [err |-> TRUE, val |-> zero]
       ELSE LET FieldErr(val, typ) ==
                    CASE typ = "string" -> val.t # "string"
                      [] typ = "bool" -> val.t # "bool"
                      [] typ = "uuid" ->
                             val.t # "string" \/ Parse(val.v).err
                FieldVal(val, typ) ==
                    CASE typ = "string" -> val.v
                      [] typ = "bool" -> (val.v = "true")
                      [] typ = "uuid" -> Parse(val.v).uuid
                keys == DOMAIN body.obj \cap DOMAIN schema
                bad == {k \in keys : FieldErr(body.obj[k], schema[k].typ)}
                filled == [f \in DOMAIN zero |->
                             LET ks == {k \in keys \ bad : schema[k].field = f}
                             IN IF ks = {} THEN zero[f]
                                ELSE LET k == CHOOSE x \in ks : TRUE
                                     IN FieldVal(body.obj[k], schema[k].typ)]
            IN [err |-> bad # {}, val |-> filled]

(***************************************************************************)
(* The models package                                                      *)
(***************************************************************************)
ZeroUser == [ID |-> Nil, Name |-> "", Email |-> ""]

UserSchema == [name |-> [typ |-> "string", field |-> "Name"],
               email |-> [typ |-> "string", field |-> "Email"],
               id |-> [typ |-> "uuid", field |-> "ID"]]

ZeroArticle == [ID |-> Nil, Title |-> "", Author |-> "", Published |-> FALSE]

ArticleSchema == [id |-> [typ |-> "uuid", field |-> "ID"],
                  title |-> [typ |-> "string", field |-> "Title"],
                  author |-> [typ |-> "string", field |-> "Author"],
                  published |-> [typ |-> "bool", field |-> "Published"]]

ZeroComment == [ID |-> Nil, Name |-> "", Email |-> "", Content |-> ""]

CommentSchema == [name |-> [typ |-> "string", field |-> "Name"],
                  email |-> [typ |-> "string", field |-> "Email"],
                  content |-> [typ |-> "string", field |-> "Content"],
                  id |-> [typ |-> "uuid", field |-> "ID"]]

\* the article of the services package: its flag is called IsPublished
ZeroServiceArticle ==
    [ID |-> Nil, Title |-> "", Author |-> "", IsPublished |-> FALSE]

(***************************************************************************)
(* github.com/go-playground/validator: Struct.  Fields are visited in      *)
(* declaration order; the tags of one field are tried left to right and    *)
(* the first tag that fails is the one error reported for that field.      *)
(***************************************************************************)
\* the email tag (emailRegex, on ASCII text): local@domain, split at any
\* @.  The local part is atom(.atom)* or a quoted string; the domain is
\* (label\.)+ tld \.? where a label is one edge character or edge inner*
\* edge, the edges of a label letters or digits and those of the tld
\* letters.  An inner character may be a dot, so a run of labels is itself
\* one label.  The grave accent is an atom character too, but no string of
\* this notation can hold it.
IsEmail(s) ==
    LET Letters ==
            {"a", "b", "c", "d", "e", "f", "g", "h", "i", "j", "k", "l",
             "m", "n", "o", "p", "q", "r", "s", "t", "u", "v", "w", "x",
             "y", "z", "A", "B", "C", "D", "E", "F", "G", "H", "I", "J",
             "K", "L", "M", "N", "O", "P", "Q", "R", "S", "T", "U", "V",
             "W", "X", "Y", "Z"}
        AlphaNum ==
            Letters \cup {"0", "1", "2", "3", "4", "5", "6", "7", "8", "9"}
        AtomChars ==
            AlphaNum \cup {"!", "#", "$", "%", "&", "'", "*", "+", "-", "/",
                           "=", "?", "^", "_", "{", "|", "}", "~"}
        QuotedChars ==
            AtomChars \cup {" ", ".", "(", ")", ",", ":", ";", "<", ">",
                            "@", "[", "]"}
        Char(t, i) == SubSeq(t, i, i)
        AllIn(t, set) == \A i \in 1..Len(t) : Char(t, i) \in set
        IsDotAtom(t) ==
            /\ Len(t) >= 1
            /\ AllIn(t, AtomChars \cup {"."})
            /\ Char(t, 1) # "."
            /\ Char(t, Len(t)) # "."
            /\ \A i \in 1..(Len(t) - 1) :
                   ~(Char(t, i) = "." /\ Char(t, i + 1) = ".")
        IsQuoted(t) ==
            /\ Len(t) >= 2
            /\ Char(t, 1) = "\""
            /\ Char(t, Len(t)) = "\""
            /\ AllIn(SubSeq(t, 2, Len(t) - 1), QuotedChars)
        IsLabelOf(edge, t) ==
            /\ Len(t) >= 1
            /\ Char(t, 1) \in edge
            /\ Char(t, Len(t)) \in edge
            /\ AllIn(t, AlphaNum \cup {"-", ".", "~"})
        IsDomain(t) ==
            \E k \in 2..Len(t) :
                /\ Char(t, k) = "."
                /\ IsLabelOf(AlphaNum, SubSeq(t, 1, k - 1))
                /\ \/ IsLabelOf(Letters, SubSeq(t, k + 1, Len(t)))
                   \/ /\ Char(t, Len(t)) = "."
                      /\ IsLabelOf(Letters, SubSeq(t, k + 1, Len(t) - 1))
    IN \E k \in 2..Len(s) :
           /\ Char(s, k) = "@"
           /\ IsDotAtom(SubSeq(s, 1, k - 1)) \/ IsQuoted(SubSeq(s, 1, k - 1))
           /\ IsDomain(SubSeq(s, k + 1, Len(s)))

TagFails(tag, s) ==
    CASE tag = "required" -> s = ""
      [] tag = "min=5" -> Len(s) < 5
      [] tag = "email" -> ~IsEmail(s)

\* validate:"..." tags of models.User
UserRules == << [field |-> "Name", tags |-> <<"required", "min=5">>],
                [field |-> "Email", tags |-> <<"required", "email">>] >>

\* validate:"..." tags of models.Article and models.Comment: none
NoRules == << >>

RECURSIVE ValidateFrom(_, _, _)
ValidateFrom(rules, val, i) ==
    IF i > Len(rules) THEN << >>
    ELSE LET FirstFailing(tags, s) ==
                 LET failing == {j \in 1..Len(tags) : TagFails(tags[j], s)}
                 IN IF failing = {} THEN 0
                    ELSE CHOOSE j \in failing : \A m \in failing : j <= m
             r == rules[i]
             k == FirstFailing(r.tags, val[r.field])
             rest == ValidateFrom(rules, val, i + 1)
         IN IF k = 0 THEN rest
            ELSE <<[Field |-> r.field,
                    Tag |-> IF r.tags[k] = "min=5" THEN "min"
                            ELSE r.tags[k]]>> \o rest

\* validate.Struct: the ValidationErrors, empty when err == nil
ValidateStruct(rules, val) == ValidateFrom(rules, val, 1)

\* the dynamic type of the error validate.Struct(v) returns: a value that
\* is no struct (here a nil pointer) is reported as invalid input before
\* any field is looked at; a struct gets the ValidationErrors ve of its
\* fields, or nil when there are none
ErrorType(v, ve) ==
    IF "nil" \in DOMAIN v THEN "*validator.InvalidValidationError"
    ELSE IF ve = << >> THEN "nil"
    ELSE "validator.ValidationErrors"

(***************************************************************************)
(* net/http: ResponseWriter.  status = 0 until the header is committed;    *)
(* ctype is the Content-Type that was committed with it; hdr is the header *)
(* map the handler can still edit; extra counts WriteHeader calls that     *)
(* came after the commit; when the connection is broken writes fail; errs  *)
(* lists the http.Error calls of the handler, delivered or not.            *)
(***************************************************************************)
NewWriter(broken) ==
    [body |-> << >>, broken |-> broken, status |-> 0, ctype |-> "",
     hdr |-> "", extra |-> 0, errs |-> << >>]

HeaderSet(rw, ct) == [rw EXCEPT !.hdr = ct]

WriteHeader(rw, code) ==
    IF rw.status # 0
       THEN [rw EXCEPT !.extra = @ + 1]
       ELSE [rw EXCEPT !.status = code, !.ctype = rw.hdr]

\* the first bytes of a body commit 200 when no status was committed, and a
\* response that was committed without a Content-Type gets the sniffed one
Write(rw, data) ==
    LET rw1 == IF rw.status = 0 THEN WriteHeader(rw, StatusOK) ELSE rw
        rw2 == IF rw1.ctype = ""
                  THEN [rw1 EXCEPT !.ctype = "text/plain; charset=utf-8"]
                  ELSE rw1
    IN IF rw.broken THEN rw1 ELSE [rw2 EXCEPT !.body = Append(@, data)]

\* http.Error(w, msg, code)
Error(rw, msg, code) ==
    [Write(WriteHeader(HeaderSet(rw, "text/plain; charset=utf-8"), code),
           [text |-> msg])
       EXCEPT !.errs = Append(@, [code |-> code, msg |-> msg])]

\* what net/http does when a handler is over.  When it returned, a response
\* that was never committed is sent as 200 with an empty body; when it
\* panicked, the server recovers, logs the panic and closes the connection,
\* so a response that was never committed is never sent.
FinishRequest(res) ==
    IF res.out # << >> /\ "panic" \in DOMAIN res.out[1] THEN res.w
    ELSE IF res.w.status = 0 THEN WriteHeader(res.w, StatusOK)
    ELSE res.w

\* a handler whose body is empty: it returns without touching the writer
EmptyHandler(r) == [w |-> NewWriter(r.broken), out |-> << >>, gen |-> 0]

\* json.NewEncoder(w).Encode(v): the error is the writer's
Encode(rw, v) == [w |-> Write(rw, [json |-> v]), err |-> rw.broken]

(***************************************************************************)
(* What a handler leaves behind: the response writer, the lines it printed *)
(* and the number of identifiers it took from uuid.NewV7.                  *)
(***************************************************************************)
Done(rw, out, gen) == [w |-> rw, out |-> out, gen |-> gen]

\* a handler that panicked: net/http recovers, logs the panic and drops the
\* connection; what was written so far stays written
Panic(rw, msg) == [w |-> rw, out |-> << [panic |-> msg] >>, gen |-> 0]

\* a JSON document with one member, as the handlers build with map[string]T
Doc(key, val) == [val |-> val, key |-> key]

JSONAPI == "application/vnd.api+json"

\* the tail the handlers share: Content-Type, status, Encode, and
\* http.Error(500) when Encode fails
SendJSON(rw, ct, code, doc, msg) ==
    LET e == Encode(WriteHeader(HeaderSet(rw, ct), code), doc)
    IN IF e.err THEN Error(e.w, msg, StatusInternalServerError) ELSE e.w

(***************************************************************************)
(* package handlers: UserHandler                                           *)
(***************************************************************************)
UserHandler_GetUsers(r, n) ==
    LET w0 == NewWriter(r.broken)
        g == NewV7(n, r.genFail)
        users == << [ID |-> g.uuid, Name |-> "Somraj Saha",
                     Email |-> "somraj.saha@weburz.com"],
                    [ID |-> g.uuid, Name |-> "John Doe",
                     Email |-> "john.doe@weburz.com"] >>
    IN IF g.err
          THEN Done(Error(w0, "Unable to Generate User ID",
                          StatusInternalServerError), << >>, 0)
          ELSE Done(SendJSON(w0, JSONAPI, StatusOK, Doc("users", users),
                             "Unable to encode JSON"), << >>, 1)

UserHandler_GetUser(r, n) ==
    LET w0 == NewWriter(r.broken)
        p == Parse(r.id)
        user == [ID |-> p.uuid, Name |-> "Somraj Saha",
                 Email |-> "somraj.saha@weburz.com"]
    IN IF p.err
          THEN Done(Error(w0, "User ID Not Found", StatusNotFound), << >>, 0)
          ELSE Done(SendJSON(w0, JSONAPI, StatusOK, Doc("user", user),
                             "Unable to encode JSON"), << >>, 0)

UserHandler_EditUser(r, n) ==
    LET w0 == NewWriter(r.broken)
        p == Parse(r.id)
        d == Decode(Bodies[r.body], ZeroUser, UserSchema)
        user == [ID |-> p.uuid, Name |-> d.val.Name, Email |-> d.val.Email]
    IN IF p.err
          THEN Done(Error(w0, "User ID Not Found", StatusNotFound), << >>, 0)
       ELSE IF d.err
          THEN Done(Error(w0, "Invalid Request Body", StatusBadRequest),
                    << >>, 0)
       ELSE IF ValidateStruct(UserRules, d.val) # << >>
          THEN Done(Error(w0, "Request validation failed",
                          StatusUnprocessableEntity), << >>, 0)
       ELSE Done(SendJSON(w0, JSONAPI, StatusCreated, Doc("user", user),
                          "Unable to encode JSON"), << >>, 0)

\* variant that keeps the "id" of the request body when it carries one
UserHandler_CreateUser_KeepsBodyID(r, n) ==
    LET w0 == NewWriter(r.broken)
        d == Decode(Bodies[r.body], ZeroUser, UserSchema)
        g == NewV7(n, r.genFail)
        w1 == IF g.err
                 THEN Error(w0, "Failed to generate a User ID",
                            StatusInternalServerError)
                 ELSE w0
        user == [ID |-> IF d.val.ID # Nil THEN d.val.ID ELSE g.uuid,
                 Name |-> d.val.Name, Email |-> d.val.Email]
    IN IF d.err
          THEN Done(Error(w0, "Invalid Request Body",
                          StatusInternalServerError), << >>, 0)
       ELSE IF ValidateStruct(UserRules, d.val) # << >>
          THEN Done(Error(w0, "Request validation failed",
                          StatusUnprocessableEntity), << >>, 0)
       ELSE Done(SendJSON(w1, JSONAPI, StatusCreated, Doc("user", user),
                          "Unable to encode JSON"),
                 << >>, IF g.err THEN 0 ELSE 1)

\* no return after the http.Error that reports the uuid.NewV7 failure
UserHandler_CreateUser(r, n) ==
    LET w0 == NewWriter(r.broken)
        d == Decode(Bodies[r.body], ZeroUser, UserSchema)
        g == NewV7(n, r.genFail)
        w1 == IF g.err
                 THEN Error(w0, "Failed to generate a User ID",
                            StatusInternalServerError)
                 ELSE w0
        user == [ID |-> g.uuid, Name |-> d.val.Name, Email |-> d.val.Email]
    IN IF d.err
          THEN Done(Error(w0, "Invalid Request Body",
                          StatusInternalServerError), << >>, 0)
       ELSE IF ValidateStruct(UserRules, d.val) # << >>
          THEN Done(Error(w0, "Request validation failed",
                          StatusUnprocessableEntity), << >>, 0)
       ELSE Done(SendJSON(w1, JSONAPI, StatusCreated, Doc("user", user),
                          "Unable to encode JSON"),
                 << >>, IF g.err THEN 0 ELSE 1)

\* no return after the http.Error that reports the unparsable identifier
UserHandler_DeleteUser(r, n) ==
    LET w0 == NewWriter(r.broken)
        p == Parse(r.id)
        w1 == IF p.err
                 THEN Error(w0, "User ID Not Found", StatusNotFound)
                 ELSE w0
        user == [ID |-> p.uuid, Name |-> "John Doe",
                 Email |-> "john.doe@weburz.com"]
    IN Done(WriteHeader(HeaderSet(w1, JSONAPI), StatusNoContent),
            << [deleted |-> user] >>, 0)

(***************************************************************************)
(* package handlers: ArticleHandler                                        *)
(***************************************************************************)
ArticleHandler_GetArticles(r, n) ==
    LET w0 == NewWriter(r.broken)
        g == NewV7(n, r.genFail)
        articles == << [ID |-> g.uuid, Title |-> "Go Programming Basics",
                        Author |-> "John Doe", Published |-> TRUE],
                       [ID |-> g.uuid, Title |-> "Advanced Go Techniques",
                        Author |-> "Jane Smith", Published |-> FALSE],
                       [ID |-> g.uuid,
                        Title |-> "Understanding Go Concurrency",
                        Author |-> "Alice Johnson", Published |-> TRUE] >>
    IN IF g.err
          THEN Done(Error(w0, "Unable to generate the Article ID",
                          StatusInternalServerError), << >>, 0)
          ELSE Done(SendJSON(w0, JSONAPI, StatusOK,
                             Doc("articles", articles),
                             "Unable to encode JSON"), << >>, 1)

ArticleHandler_GetArticle(r, n) ==
    LET w0 == NewWriter(r.broken)
        p == Parse(r.id)
        article == [ID |-> p.uuid, Title |-> "Go Programmign Basics",
                    Author |-> "John Doe", Published |-> TRUE]
    IN IF p.err
          THEN Done(Error(w0, "Article ID Not Found", StatusNotFound),
                    << >>, 0)
          ELSE Done(SendJSON(w0, JSONAPI, StatusOK, Doc("article", article),
                             "Unable to encode JSON"), << >>, 0)

\* variant that stores the published flag of the payload
ArticleHandler_CreateArticle_KeepsPublished(r, n) ==
    LET w0 == NewWriter(r.broken)
        d == Decode(Bodies[r.body], ZeroArticle, ArticleSchema)
        g == NewV7(n, r.genFail)
        article == [ID |-> g.uuid, Title |-> d.val.Title,
                    Author |-> d.val.Author, Published |-> d.val.Published]
    IN IF d.err
          THEN Done(Error(w0, "Invalid request body", StatusBadRequest),
                    << >>, 0)
       ELSE IF ValidateStruct(NoRules, d.val) # << >>
          THEN Done(Error(w0, "Request validation failed",
                          StatusUnprocessableEntity), << >>, 0)
       ELSE IF g.err
          THEN Done(Error(w0, "Failed to generate the Article ID",
                          StatusInternalServerError), << >>, 0)
       ELSE Done(SendJSON(w0, JSONAPI, StatusCreated,
                          Doc("article", article), "Unable to encode JSON"),
                 << >>, 1)

ArticleHandler_CreateArticle(r, n) ==
    LET w0 == NewWriter(r.broken)
        d == Decode(Bodies[r.body], ZeroArticle, ArticleSchema)
        g == NewV7(n, r.genFail)
        article == [ID |-> g.uuid, Title |-> d.val.Title,
                    Author |-> d.val.Author, Published |-> FALSE]
    IN IF d.err
          THEN Done(Error(w0, "Invalid request body", StatusBadRequest),
                    << >>, 0)
       ELSE IF ValidateStruct(NoRules, d.val) # << >>
          THEN Done(Error(w0, "Request validation failed",
                          StatusUnprocessableEntity), << >>, 0)
       ELSE IF g.err
          THEN Done(Error(w0, "Failed to generate the Article ID",
                          StatusInternalServerError), << >>, 0)
       ELSE Done(SendJSON(w0, JSONAPI, StatusCreated,
                          Doc("article", article), "Unable to encode JSON"),
                 << >>, 1)

\* validates the zero value, then decodes the body, then parses the id
ArticleHandler_EditArticle(r, n) ==
    LET w0 == NewWriter(r.broken)
        d == Decode(Bodies[r.body], ZeroArticle, ArticleSchema)
        p == Parse(r.id)
        article == [ID |-> p.uuid, Title |-> d.val.Title,
                    Author |-> d.val.Author, Published |-> d.val.Published]
    IN IF ValidateStruct(NoRules, ZeroArticle) # << >>
          THEN Done(Error(w0, "Request body validation failed",
                          StatusUnprocessableEntity), << >>, 0)
       ELSE IF d.err
          THEN Done(Error(w0, "Invalid Request Body", StatusBadRequest),
                    << >>, 0)
       ELSE IF p.err
          THEN Done(Error(w0, "Article ID Not Found", StatusNotFound),
                    << >>, 0)
       ELSE Done(SendJSON(w0, JSONAPI, StatusCreated,
                          Doc("article", article), "Unable to encode JSON"),
                 << >>, 0)

\* variant that answers a Delete like an Update: 200 and the article
ArticleHandler_DeleteArticle_SendsArticle(r, n) ==
    LET w0 == NewWriter(r.broken)
        p == Parse(r.id)
    IN IF p.err
          THEN Done(Error(w0, "Article ID Not Found", StatusNotFound),
                    << >>, 0)
          ELSE Done(SendJSON(w0, JSONAPI, StatusOK,
                             Doc("article", [ZeroArticle EXCEPT !.ID = p.uuid]),
                             "Unable to encode JSON"), << >>, 0)

ArticleHandler_DeleteArticle(r, n) ==
    LET w0 == NewWriter(r.broken)
        p == Parse(r.id)
    IN IF p.err
          THEN Done(Error(w0, "Article ID Not Found", StatusNotFound),
                    << >>, 0)
          ELSE Done(WriteHeader(HeaderSet(w0, JSONAPI), StatusNoContent),
                    << >>, 0)

(***************************************************************************)
(* package services                                                        *)
(* A service result is [val, err, gen, out]: the value, whether the error  *)
(* is non-nil, the identifiers taken from uuid.NewV7 and the text printed  *)
(* to standard output.                                                     *)
(***************************************************************************)
Result(val, err, gen) ==
    [err |-> err, val |-> val, out |-> << >>, gen |-> gen]

MockComments(id) ==
    << [ID |-> id, Name |-> "John Doe", Email |-> "john.doe@example.com",
        Content |-> "This is a great article"],
       [ID |-> id, Name |-> "Jane Smith", Email |-> "jane.smith@example.com",
        Content |-> "I found this article really helpful, thanks!"],
       [ID |-> id, Name |-> "Alice Johnson",
        Email |-> "alice.johnson@example.com",
        Content |-> "Interesting perspective, I learned a lot!"],
       [ID |-> id, Name |-> "Somraj Saha", Email |-> "somraj.saha@weburz.com",
        Content |-> "This is a test comment for experimental purposes ONLY!"] >>

UserServiceImpl_GetAllUsers(n, genFail) ==
    LET g == NewV7(n, genFail)
    IN IF g.err THEN Result(<< >>, TRUE, 0)
       ELSE Result(<< [ID |-> g.uuid, Name |-> "Somraj Saha",
                       Email |-> "somraj.saha@weburz.com"],
                      [ID |-> g.uuid, Name |-> "John Doe",
                       Email |-> "john.doe@example.com"],
                      [ID |-> g.uuid, Name |-> "Sagar Kapoor",
                       Email |-> "sagar.kapoor@weburz.com"] >>, FALSE, 1)

UserServiceImpl_GetUserByID(id) ==
    LET p == Parse(id)
    IN IF p.err THEN Result(ZeroUser, TRUE, 0)
       ELSE Result([ID |-> p.uuid, Name |-> "Somraj Saha",
                    Email |-> "somraj.saha@weburz.com"], FALSE, 0)

UserServiceImpl_CreateUser(name, email, n, genFail) ==
    LET g == NewV7(n, genFail)
    IN IF g.err THEN Result(ZeroUser, TRUE, 0)
       ELSE Result([ID |-> g.uuid, Name |-> name, Email |-> email], FALSE, 1)

UserServiceImpl_UpdateUser(id, name, email) ==
    LET p == Parse(id)
    IN IF p.err THEN Result(ZeroUser, TRUE, 0)
       ELSE Result([ID |-> p.uuid, Name |-> name, Email |-> email], FALSE, 0)

\* fmt.Printf("User %s deleted!", id): no newline
UserServiceImpl_DeleteUser(id) ==
    [Result(<< >>, FALSE, 0) EXCEPT
        !.out = <<[text |-> "User " \o id \o " deleted!"]>>]

CommentServiceImpl_GetAllComments(n, genFail) ==
    LET g == NewV7(n, genFail)
    IN IF g.err THEN Result(<< >>, TRUE, 0)
       ELSE Result(MockComments(g.uuid), FALSE, 1)

CommentServiceImpl_GetCommentsFromArticle(n, genFail) ==
    LET g == NewV7(n, genFail)
    IN IF g.err THEN Result(<< >>, TRUE, 0)
       ELSE Result(MockComments(g.uuid), FALSE, 1)

CommentServiceImpl_AddCommentToArticle(name, email, content, n, genFail) ==
    LET g == NewV7(n, genFail)
    IN IF g.err THEN Result(ZeroComment, TRUE, 0)
       ELSE Result([ID |-> g.uuid, Name |-> name, Email |-> email,
                    Content |-> content], FALSE, 1)

CommentServiceImpl_DeleteCommentFromArticle == Result(<< >>, FALSE, 0)

\* the error branch returns a list holding one zero article
ArticleServiceImpl_GetAllArticles(n, genFail) ==
    LET g == NewV7(n, genFail)
    IN IF g.err THEN Result(<< ZeroServiceArticle >>, TRUE, 0)
       ELSE Result(<< [ID |-> g.uuid, Title |-> "Go Programming Basics",
                       Author |-> "John Doe", IsPublished |-> TRUE],
                      [ID |-> g.uuid, Title |-> "Advanced Go Techniques",
                       Author |-> "Jane Smith", IsPublished |-> FALSE],
                      [ID |-> g.uuid,
                       Title |-> "Understanding Go Concurrency",
                       Author |-> "Alice Johnson", IsPublished |-> TRUE] >>,
                   FALSE, 1)

\* takes a new identifier instead of id; the error branch returns nil
ArticleServiceImpl_GetArticleByID(id, n, genFail) ==
    LET g == NewV7(n, genFail)
    IN IF g.err THEN Result(ZeroServiceArticle, FALSE, 0)
       ELSE Result([ID |-> g.uuid, Title |-> "Go Programming Basics",
                    Author |-> "John Doe", IsPublished |-> TRUE], FALSE, 1)

ArticleServiceImpl_CreateArticle(title, author, isPublished, n, genFail) ==
    LET g == NewV7(n, genFail)
    IN IF g.err THEN Result(ZeroServiceArticle, FALSE, 0)
       ELSE Result([ID |-> g.uuid, Title |-> title, Author |-> author,
                    IsPublished |-> isPublished], FALSE, 1)

\* takes a new identifier instead of id; the error branch returns nil
ArticleServiceImpl_UpdateArticle(id, title, author, isPublished, n, genFail) ==
    LET g == NewV7(n, genFail)
    IN IF g.err THEN Result(ZeroServiceArticle, FALSE, 0)
       ELSE Result([ID |-> g.uuid, Title |-> title, Author |-> author,
                    IsPublished |-> isPublished], FALSE, 1)

\* %v of models.Article{ID: articleID}: the identifier, two empty strings
\* and false, separated by blanks
ArticleServiceImpl_DeleteArticle(id) ==
    LET p == Parse(id)
    IN IF p.err THEN Result(<< >>, TRUE, 0)
       ELSE [Result(<< >>, FALSE, 0) EXCEPT
                !.out = <<[text |-> "{" \o p.uuid
                                       \o "   false} article is deleted!\n"]>>]

(***************************************************************************)
(* package handlers: CommentHandler, the revision without a service        *)
(***************************************************************************)
CommentHandler_GetComments(r, n) ==
    LET w0 == NewWriter(r.broken)
        g == NewV7(n, r.genFail)
    IN IF g.err
          THEN Done(Error(w0, "Comment ID Not Found", StatusNotFound),
                    << >>, 0)
          ELSE Done(SendJSON(w0, JSONAPI, StatusOK,
                             Doc("comments", MockComments(g.uuid)),
                             "Unable to encode JSON"), << >>, 1)

\* variant over a Comment whose content is required
CommentHandler_AddComment_RequiresContent(r, n) ==
    LET w0 == NewWriter(r.broken)
        d == Decode(Bodies[r.body], ZeroComment, CommentSchema)
        g == NewV7(n, r.genFail)
        comment == [ID |-> g.uuid, Name |-> d.val.Name,
                    Email |-> d.val.Email, Content |-> d.val.Content]
        rules == << [field |-> "Content", tags |-> <<"required">>] >>
    IN IF d.err
          THEN Done(Error(w0, "Invalid request body", StatusBadRequest),
                    << >>, 0)
       ELSE IF ValidateStruct(rules, d.val) # << >>
          THEN Done(Error(w0, "Request body validation failed",
                          StatusUnprocessableEntity), << >>, 0)
       ELSE IF g.err
          THEN Done(Error(w0, "Unable to generate the Comment ID",
                          StatusInternalServerError), << >>, 0)
       ELSE Done(SendJSON(w0, JSONAPI, StatusCreated,
                          Doc("comment", comment), "Unable to encoder JSON"),
                 << >>, 1)

CommentHandler_AddComment(r, n) ==
    LET w0 == NewWriter(r.broken)
        d == Decode(Bodies[r.body], ZeroComment, CommentSchema)
        g == NewV7(n, r.genFail)
        comment == [ID |-> g.uuid, Name |-> d.val.Name,
                    Email |-> d.val.Email, Content |-> d.val.Content]
    IN IF d.err
          THEN Done(Error(w0, "Invalid request body", StatusBadRequest),
                    << >>, 0)
       ELSE IF ValidateStruct(NoRules, d.val) # << >>
          THEN Done(Error(w0, "Request body validation failed",
                          StatusUnprocessableEntity), << >>, 0)
       ELSE IF g.err
          THEN Done(Error(w0, "Unable to generate the Comment ID",
                          StatusInternalServerError), << >>, 0)
       ELSE Done(SendJSON(w0, JSONAPI, StatusCreated,
                          Doc("comment", comment), "Unable to encoder JSON"),
                 << >>, 1)

CommentHandler_RemoveComment(r, n) ==
    LET w0 == NewWriter(r.broken)
        p == Parse(r.id)
    IN IF p.err
          THEN Done(Error(w0, "Comment ID Not Found", StatusNotFound),
                    << >>, 0)
          ELSE Done(WriteHeader(HeaderSet(w0, JSONAPI), StatusNoContent),
                    << [deleted |-> [ZeroComment EXCEPT !.ID = p.uuid]] >>, 0)

(***************************************************************************)
(* package handlers: CommentHandler, the revision backed by the service.   *)
(* err.Error() is the text of the failure that is passed to http.Error.    *)
(***************************************************************************)
ErrText(what) == "error: " \o what

CommentHandler_GetAllComments(r, n) ==
    LET w0 == NewWriter(r.broken)
        s == CommentServiceImpl_GetAllComments(n, r.genFail)
        e == Encode(WriteHeader(HeaderSet(w0, JSONAPI), StatusOK),
                    Doc("comments", s.val))
    IN IF s.err
          THEN Done(Error(w0, ErrText("uuid"), StatusInternalServerError),
                    << >>, s.gen)
       ELSE IF e.err
          THEN Done(Error(e.w, ErrText("write"), StatusInternalServerError),
                    << >>, s.gen)
       ELSE Done(e.w, << >>, s.gen)

\* neither Content-Type nor status is set before Encode
CommentHandler_GetCommentsFromArticle(r, n) ==
    LET w0 == NewWriter(r.broken)
        s == CommentServiceImpl_GetCommentsFromArticle(n, r.genFail)
        e == Encode(w0, Doc("comments", s.val))
    IN IF s.err
          THEN Done(Error(w0, ErrText("uuid"), StatusInternalServerError),
                    << >>, s.gen)
       ELSE IF e.err
          THEN Done(Error(e.w, ErrText("write"), StatusInternalServerError),
                    << >>, s.gen)
       ELSE Done(e.w, << >>, s.gen)

\* variant that calls the service before it looks at the decoding error
CommentHandler_AddCommentToArticle_ServiceFirst(r, n) ==
    LET w0 == NewWriter(r.broken)
        d == Decode(Bodies[r.body], ZeroComment, CommentSchema)
        s == CommentServiceImpl_AddCommentToArticle(
                 d.val.Name, d.val.Email, d.val.Content, n, r.genFail)
    IN IF s.err
          THEN Done(Error(w0, ErrText("uuid"), StatusInternalServerError),
                    << >>, s.gen)
       ELSE IF d.err
          THEN Done(Error(w0, ErrText("json"), StatusBadRequest), << >>, s.gen)
       ELSE IF ValidateStruct(NoRules, d.val) # << >>
          THEN Done(Error(w0, ErrText("validation"),
                          StatusUnprocessableEntity), << >>, s.gen)
       ELSE Done(SendJSON(w0, JSONAPI, StatusCreated, Doc("comment", s.val),
                          "Unable to encoder JSON"), << >>, s.gen)

CommentHandler_AddCommentToArticle(r, n) ==
    LET w0 == NewWriter(r.broken)
        d == Decode(Bodies[r.body], ZeroComment, CommentSchema)
        s == CommentServiceImpl_AddCommentToArticle(
                 d.val.Name, d.val.Email, d.val.Content, n, r.genFail)
    IN IF d.err
          THEN Done(Error(w0, ErrText("json"), StatusBadRequest), << >>, 0)
       ELSE IF ValidateStruct(NoRules, d.val) # << >>
          THEN Done(Error(w0, ErrText("validation"),
                          StatusUnprocessableEntity), << >>, 0)
       ELSE IF s.err
          THEN Done(Error(w0, ErrText("uuid"), StatusInternalServerError),
                    << >>, s.gen)
       ELSE Done(SendJSON(w0, JSONAPI, StatusCreated, Doc("comment", s.val),
                          "Unable to encoder JSON"), << >>, s.gen)

\* the path identifier is never read
CommentHandler_DeleteCommentFromArticle(r, n) ==
    LET w0 == NewWriter(r.broken)
        s == CommentServiceImpl_DeleteCommentFromArticle
    IN IF s.err
          THEN Done(Error(w0, ErrText("delete"), StatusInternalServerError),
                    << >>, 0)
          ELSE Done(WriteHeader(HeaderSet(w0, JSONAPI), StatusNoContent),
                    << >>, 0)

(***************************************************************************)
(* package users (the handlers that came before package handlers)          *)
(***************************************************************************)
users_GetUsers(r, n) ==
    LET w0 == NewWriter(r.broken)
        g == NewV7(n, r.genFail)
        users == << [ID |-> g.uuid, Name |-> "Somraj Saha",
                     Email |-> "somraj.saha@weburz.com"],
                    [ID |-> g.uuid, Name |-> "John Doe",
                     Email |-> "john.doe@example.com"] >>
    IN IF g.err
          THEN Done(Error(w0, "Unable to Generate User ID",
                          StatusInternalServerError), << >>, 0)
          ELSE Done(SendJSON(w0, JSONAPI, StatusOK, Doc("users", users),
                             "Unable to encode JSON"), << >>, 1)

users_GetUser(r, n) ==
    LET w0 == NewWriter(r.broken)
        p == Parse(r.id)
        user == [ID |-> p.uuid, Name |-> "Somraj Saha",
                 Email |-> "somraj.saha@weburz.com"]
    IN IF p.err
          THEN Done(Error(w0, "User ID Not Found", StatusNotFound), << >>, 0)
          ELSE Done(SendJSON(w0, "application/json", StatusOK,
                             Doc("user", user), "Unable to encode JSON"),
                    << >>, 0)

\* the first revision: the identifier is the path text, never parsed, and
\* Encode runs before any status is set
users_GetUser_Early(r, n) ==
    LET w0 == NewWriter(r.broken)
        user == [ID |-> r.id, Name |-> "Somraj Saha",
                 Email |-> "somraj.saha@weburz.com"]
        e == Encode(HeaderSet(w0, "application/json"), Doc("user", user))
    IN Done(IF e.err
               THEN Error(e.w, "Unable to encode JSON",
                          StatusInternalServerError)
               ELSE e.w, << >>, 0)

\* variant whose source pointer names the rule instead of the field
ErrorDetail_PointsAtRule(fe) ==
    [Title |-> "Invalid Attribute",
     Status |-> StatusUnprocessableEntity,
     Source |-> [Pointer |-> "/data/attributes/" \o fe.Tag],
     Detail |-> "'" \o fe.Tag \o "' validation failed for field: '"
                \o fe.Field \o "'"]

\* one ErrorDetail for each entry of the validator's ValidationErrors
ErrorDetail(fe) ==
    [Title |-> "Invalid Attribute",
     Status |-> StatusUnprocessableEntity,
     Source |-> [Pointer |-> "/data/attributes/" \o fe.Field],
     Detail |-> "'" \o fe.Tag \o "' validation failed for field: '"
                \o fe.Field \o "'"]

\* variant that declares updatedUser as a pointer to models.User: Decode
\* allocates the struct for an object and leaves the pointer nil for the
\* literal null
users_UpdateUser_DecodesPointer(r, n) ==
    LET w0 == NewWriter(r.broken)
        p == Parse(r.id)
        d == Decode(Bodies[r.body], ZeroUser, UserSchema)
        updatedUser == IF Bodies[r.body].kind = "null"
                          THEN [nil |-> TRUE] ELSE d.val
        ve == ValidateStruct(UserRules, updatedUser)
        errorResponse == [i \in 1..Len(ve) |-> ErrorDetail(ve[i])]
        e == Encode(WriteHeader(HeaderSet(w0, JSONAPI),
                                StatusUnprocessableEntity),
                    Doc("errors", errorResponse))
        user == [ID |-> p.uuid, Name |-> updatedUser.Name,
                 Email |-> updatedUser.Email]
    IN IF p.err
          THEN Done(Error(w0, "User ID Not Found", StatusNotFound), << >>, 0)
       ELSE IF d.err
          THEN Done(Error(w0, "Invalid request body", StatusBadRequest),
                    << >>, 0)
       ELSE IF ErrorType(updatedUser, ve)
                   \notin {"nil", "validator.ValidationErrors"}
          THEN Panic(w0, "interface conversion")
       ELSE IF ve # << >>
          THEN Done(IF e.err
                       THEN Error(e.w, "Unable to encode error response",
                                  StatusInternalServerError)
                       ELSE e.w, << >>, 0)
       ELSE Done(SendJSON(w0, JSONAPI, StatusCreated, Doc("user", user),
                          "Unable to encode JSON"), << >>, 0)

users_UpdateUser(r, n) ==
    LET w0 == NewWriter(r.broken)
        p == Parse(r.id)
        d == Decode(Bodies[r.body], ZeroUser, UserSchema)
        ve == ValidateStruct(UserRules, d.val)
        errorResponse == [i \in 1..Len(ve) |-> ErrorDetail(ve[i])]
        e == Encode(WriteHeader(HeaderSet(w0, JSONAPI),
                                StatusUnprocessableEntity),
                    Doc("errors", errorResponse))
        user == [ID |-> p.uuid, Name |-> d.val.Name, Email |-> d.val.Email]
    IN IF p.err
          THEN Done(Error(w0, "User ID Not Found", StatusNotFound), << >>, 0)
       ELSE IF d.err
          THEN Done(Error(w0, "Invalid request body", StatusBadRequest),
                    << >>, 0)
       ELSE IF ErrorType(d.val, ve)
                   \notin {"nil", "validator.ValidationErrors"}
          THEN Panic(w0, "interface conversion")
       ELSE IF ve # << >>
          THEN Done(IF e.err
                       THEN Error(e.w, "Unable to encode error response",
                                  StatusInternalServerError)
                       ELSE e.w, << >>, 0)
       ELSE Done(SendJSON(w0, JSONAPI, StatusCreated, Doc("user", user),
                          "Unable to encode JSON"), << >>, 0)

\* validate:"..." tags of the User that the second revision of package
\* users declares itself
LocalUserRules ==
    << [field |-> "Name", tags |-> <<"required">>],
       [field |-> "Email", tags |-> <<"required", "email">>] >>

\* the second revision: the same handler over the User it declares itself
users_UpdateUser_LocalUser(r, n) ==
    LET w0 == NewWriter(r.broken)
        p == Parse(r.id)
        d == Decode(Bodies[r.body], ZeroUser, UserSchema)
        ve == ValidateStruct(LocalUserRules, d.val)
        errorResponse == [i \in 1..Len(ve) |-> ErrorDetail(ve[i])]
        e == Encode(WriteHeader(HeaderSet(w0, JSONAPI),
                                StatusUnprocessableEntity),
                    Doc("errors", errorResponse))
        user == [ID |-> p.uuid, Name |-> d.val.Name, Email |-> d.val.Email]
    IN IF p.err
          THEN Done(Error(w0, "User ID Not Found", StatusNotFound), << >>, 0)
       ELSE IF d.err
          THEN Done(Error(w0, "Invalid request body", StatusBadRequest),
                    << >>, 0)
       ELSE IF ErrorType(d.val, ve)
                   \notin {"nil", "validator.ValidationErrors"}
          THEN Panic(w0, "interface conversion")
       ELSE IF ve # << >>
          THEN Done(IF e.err
                       THEN Error(e.w, "Unable to encode error response",
                                  StatusInternalServerError)
                       ELSE e.w, << >>, 0)
       ELSE Done(SendJSON(w0, JSONAPI, StatusCreated, Doc("user", user),
                          "Unable to encode JSON"), << >>, 0)

\* the first revision: the path text is the identifier, nothing is
\* validated; the User it declares has a string as ID and no tags
users_UpdateUser_Early(r, n) ==
    LET TextUserSchema == [name |-> [typ |-> "string", field |-> "Name"],
                           email |-> [typ |-> "string", field |-> "Email"],
                           id |-> [typ |-> "string", field |-> "ID"]]
        w0 == NewWriter(r.broken)
        d == Decode(Bodies[r.body], [ID |-> "", Name |-> "", Email |-> ""],
                    TextUserSchema)
        user == [ID |-> r.id, Name |-> d.val.Name, Email |-> d.val.Email]
    IN IF d.err
          THEN Done(Error(w0, "Invalid request body", StatusBadRequest),
                    << >>, 0)
          ELSE Done(SendJSON(w0, "application/json", StatusCreated,
                             Doc("user", user), "Unable to encode JSON"),
                    << >>, 0)

users_DeleteUser(r, n) ==
    LET w0 == NewWriter(r.broken)
        p == Parse(r.id)
        user == [ID |-> p.uuid, Name |-> "John Doe",
                 Email |-> "john.doe@example.com"]
    IN IF p.err
          THEN Done(Error(w0, "User ID Not Found", StatusNotFound), << >>, 0)
          ELSE Done(WriteHeader(HeaderSet(w0, "application/json"),
                                StatusNoContent),
                    << [deleted |-> user] >>, 0)

\* the first revision of package users: identifiers are plain texts, the
\* list is a literal, and Encode runs before any status is set
users_GetUsersHandler(r, n) ==
    LET w0 == NewWriter(r.broken)
        users == << [ID |-> ClientUUID, Name |-> "Somraj Saha",
                     Email |-> "somraj.saha@weburz.com"],
                    [ID |-> OtherUUID, Name |-> "John Doe",
                     Email |-> "john.doe@example.com"] >>
        e == Encode(HeaderSet(w0, "application/json"), Doc("users", users))
    IN Done(IF e.err
               THEN Error(e.w, "Unable to encode JSON",
                          StatusInternalServerError)
               ELSE e.w, << >>, 0)

\* the revision that takes one identifier from uuid.NewV7 and gives it to
\* both users; Encode runs before any status is set
users_GetUsersHandler_NewV7(r, n) ==
    LET w0 == NewWriter(r.broken)
        g == NewV7(n, r.genFail)
        users == << [ID |-> g.uuid, Name |-> "Somraj Saha",
                     Email |-> "somraj.saha@weburz.com"],
                    [ID |-> g.uuid, Name |-> "John Doe",
                     Email |-> "john.doe@example.com"] >>
        e == Encode(HeaderSet(w0, "application/json"), Doc("users", users))
    IN IF g.err
          THEN Done(Error(w0, "Unable to Generate User ID",
                          StatusInternalServerError), << >>, 0)
          ELSE Done(IF e.err
                       THEN Error(e.w, "Unable to encode JSON",
                                  StatusInternalServerError)
                       ELSE e.w, << >>, 1)

\* GetUser of the revision that declares its own User: the identifier is
\* parsed, and Encode runs before any status is set
users_GetUser_LocalUser(r, n) ==
    LET w0 == NewWriter(r.broken)
        p == Parse(r.id)
        user == [ID |-> p.uuid, Name |-> "Somraj Saha",
                 Email |-> "somraj.saha@weburz.com"]
        e == Encode(HeaderSet(w0, "application/json"), Doc("user", user))
    IN IF p.err
          THEN Done(Error(w0, "User ID Not Found", StatusNotFound), << >>, 0)
          ELSE Done(IF e.err
                       THEN Error(e.w, "Unable to encode JSON",
                                  StatusInternalServerError)
                       ELSE e.w, << >>, 0)

\* a handler that answers with a message struct: Content-Type, Encode, and
\* http.Error(500) when Encode fails.  It is GetUsersHandler of the first
\* revision of package users, GetUserHandler of package user and the
\* handler of the main program.  What GetUserHandler logs goes through the
\* default logger of log/slog to standard error, which is not kept here.
MessageHandler(r, text) ==
    LET e == Encode(HeaderSet(NewWriter(r.broken), "application/json"),
                    [Message |-> text])
    IN Done(IF e.err
               THEN Error(e.w, "Unable to encode JSON",
                          StatusInternalServerError)
               ELSE e.w, << >>, 0)

(***************************************************************************)
(* package docs                                                            *)
(***************************************************************************)
\* DocsHandler renders templates/docs.html.  found tells whether the file
\* is there when the request is served; quiet tells whether the logger
\* writes to logs.json (the logger that reads ENV, with ENV=production)
\* instead of standard output.  The page is an HTML document, which
\* net/http recognises when no Content-Type was set.
docs_DocsHandler(r, found, quiet) ==
    LET w0 == NewWriter(r.broken)
        Log(level, msg) ==
            IF quiet THEN << >> ELSE << [slog |-> [msg |-> msg,
                                                   level |-> level]] >>
        page == Write(w0, [html |-> "templates/docs.html"])
        sent == IF r.broken THEN page
                ELSE [page EXCEPT !.ctype = "text/html; charset=utf-8"]
    IN IF ~found
          THEN Done(Error(w0,
                          "Error parsing template: open templates/docs.html"
                              \o ": no such file or directory",
                          StatusInternalServerError),
                    Log("ERROR", "Error parsing template"), 0)
       ELSE IF r.broken
          THEN Done(Error(sent, "Error executing template: broken pipe",
                          StatusInternalServerError),
                    Log("ERROR", "Error executing template"), 0)
       ELSE Done(sent, Log("INFO", "Successfully served template"), 0)

(***************************************************************************)
(* package comments (the handlers that came before package handlers)       *)
(***************************************************************************)

\* the second revision: a literal list whose comments carry no identifier
comments_GetComments_Early(r, n) ==
    LET w0 == NewWriter(r.broken)
        comments ==
            << [ID |-> "", Name |-> "John Doe",
                Email |-> "john.doe@example.com",
                Content |-> "This is a great article!"],
               [ID |-> "", Name |-> "Jane Smith",
                Email |-> "jane.smith@example.com",
                Content |-> "I found this article really helpful, thanks!"],
               [ID |-> "", Name |-> "Alice Johnson",
                Email |-> "alice.johnson@example.com",
                Content |-> "Interesting perspective, I learned a lot!"] >>
    IN Done(SendJSON(w0, "application/json", StatusOK,
                     Doc("comments", comments), "Unable to encode JSON"),
            << >>, 0)

\* the second revision: never reads the body, and the comment it returns
\* has no identifier
comments_AddComment_Early(r, n) ==
    LET w0 == NewWriter(r.broken)
        comment ==
            [ID |-> "", Name |-> "Somraj Saha", Email |-> "",
             Content |-> "This is an experimental comment & it doesn't "
                             \o "server anyother purpose"]
    IN Done(SendJSON(w0, "application/json", StatusCreated,
                     Doc("comment", comment), "Unable to encode JSON"),
            << >>, 0)

\* never reads the body: the comment it returns is written in the code
comments_AddComment(r, n) ==
    LET w0 == NewWriter(r.broken)
        g == NewV7(n, r.genFail)
        comment ==
            [ID |-> g.uuid, Name |-> "Somraj Saha", Email |-> "",
             Content |-> "This is an experimental comment & it doesn't "
                             \o "serve any other purpose"]
    IN IF g.err
          THEN Done(Error(w0, "Unable to generate the Comment ID",
                          StatusInternalServerError), << >>, 0)
          ELSE Done(SendJSON(w0, "application/json", StatusCreated,
                             Doc("comment", comment),
                             "Unable to encode JSON"), << >>, 1)

\* the second revision: the identifier is the path text, never parsed
comments_RemoveComment_Early(r, n) ==
    LET w0 == NewWriter(r.broken)
        comment == [ID |-> r.id, Name |-> "", Email |-> "", Content |-> ""]
    IN Done(WriteHeader(HeaderSet(w0, "application/json"), StatusNoContent),
            << [deleted |-> comment] >>, 0)

comments_RemoveComment(r, n) ==
    LET w0 == NewWriter(r.broken)
        p == Parse(r.id)
        comment == [ID |-> p.uuid, Name |-> "", Email |-> "", Content |-> ""]
    IN IF p.err
          THEN Done(Error(w0, "Comment ID Not Found", StatusNotFound),
                    << >>, 0)
          ELSE Done(WriteHeader(HeaderSet(w0, "application/json"),
                                StatusNoContent),
                    << [deleted |-> comment] >>, 0)

comments_GetComments(r, n) ==
    LET w0 == NewWriter(r.broken)
        g == NewV7(n, r.genFail)
        comments ==
            << [ID |-> g.uuid, Name |-> "John Doe",
                Email |-> "john.doe@example.com",
                Content |-> "This is a great article!"],
               [ID |-> g.uuid, Name |-> "Jane Smith",
                Email |-> "jane.smith@example.com",
                Content |-> "I found this article really helpful, thanks!"],
               [ID |-> g.uuid, Name |-> "Alice Johnson",
                Email |-> "alice.johnson@example.com",
                Content |-> "Interesting perspective, I learned a lot!"] >>
    IN IF g.err
          THEN Done(Error(w0, "Comment ID Not Found", StatusNotFound),
                    << >>, 0)
          ELSE Done(SendJSON(w0, "application/json", StatusOK,
                             Doc("comments", comments),
                             "Unable to encode JSON"), << >>, 1)

(***************************************************************************)
(* package articles (the handlers that came before package handlers)       *)
(***************************************************************************)
\* encodes the list first: the header and the status come after the body
articles_GetArticles(r, n) ==
    LET w0 == NewWriter(r.broken)
        g == NewV7(n, r.genFail)
        articles == << [ID |-> g.uuid, Title |-> "Go Programming Basics",
                        Author |-> "John Doe", Published |-> TRUE],
                       [ID |-> g.uuid, Title |-> "Advanced Go Techniques",
                        Author |-> "Jane Smith", Published |-> FALSE],
                       [ID |-> g.uuid,
                        Title |-> "Understanding Go Concurrency",
                        Author |-> "Alice Johnson", Published |-> TRUE] >>
        e == Encode(w0, Doc("articles", articles))
    IN IF g.err
          THEN Done(Error(w0, "Unable to generate the Article ID",
                          StatusInternalServerError), << >>, 0)
       ELSE IF e.err
          THEN Done(Error(e.w, "Unable to encode JSON",
                          StatusInternalServerError), << >>, 1)
       ELSE Done(WriteHeader(HeaderSet(e.w, "application/json"), StatusOK),
                 << >>, 1)

\* the earlier revision: three articles with identifiers written in the code
articles_GetArticles_Early(r, n) ==
    LET w0 == NewWriter(r.broken)
        articles == << [ID |-> "2eee23d1-f1d3-4c1e-b22d-f789098c55e7",
                        Title |-> "Go Programming Basics",
                        Author |-> "John Doe", Published |-> TRUE],
                       [ID |-> "f83d03bd-cc83-4a19-ae27-099fc8d8fa66",
                        Title |-> "Advanced Go Techniques",
                        Author |-> "Jane Smith", Published |-> FALSE],
                       [ID |-> "377be0b6-49ec-43e5-b02e-05e15c95e964",
                        Title |-> "Understanding Go Concurrency",
                        Author |-> "Alice Johnson", Published |-> TRUE] >>
        e == Encode(w0, Doc("articles", articles))
    IN IF e.err
          THEN Done(Error(e.w, "Unable to encode JSON",
                          StatusInternalServerError), << >>, 0)
          ELSE Done(WriteHeader(HeaderSet(e.w, "application/json"), StatusOK),
                    << >>, 0)

articles_GetArticle(r, n) ==
    LET w0 == NewWriter(r.broken)
        p == Parse(r.id)
        article == [ID |-> p.uuid, Title |-> "Understanding Go Concurrency",
                    Author |-> "Alice Johnson", Published |-> TRUE]
    IN IF p.err
          THEN Done(Error(w0, "Article ID Not Found", StatusNotFound),
                    << >>, 0)
          ELSE Done(SendJSON(w0, "application/json", StatusOK,
                             Doc("article", article),
                             "Unable to encode JSON"), << >>, 0)

\* the earlier revision: the identifier is the path text, never parsed
articles_GetArticle_Early(r, n) ==
    LET w0 == NewWriter(r.broken)
        article == [ID |-> r.id, Title |-> "Understanding Go Concurrency",
                    Author |-> "Alice Johnson", Published |-> TRUE]
    IN Done(SendJSON(w0, "application/json", StatusOK,
                     Doc("article", article), "Unable to encode JSON"),
            << >>, 0)

\* never reads the body: the article it returns is written in the code
articles_CreateArticle(r, n) ==
    LET w0 == NewWriter(r.broken)
        g == NewV7(n, r.genFail)
        article == [ID |-> g.uuid,
                    Title |-> "Learn to Build REST API in Go",
                    Author |-> "Somraj Saha", Published |-> FALSE]
    IN IF g.err
          THEN Done(Error(w0, "Unable to generate the Article ID",
                          StatusInternalServerError), << >>, 0)
          ELSE Done(SendJSON(w0, "application/json", StatusCreated,
                             Doc("article", article),
                             "Unable to encode JSON"), << >>, 1)

\* the earlier revision: the identifier too is written in the code
articles_CreateArticle_Early(r, n) ==
    LET w0 == NewWriter(r.broken)
        article == [ID |-> "1dd9eb62-5af5-44b8-bc5f-b256f6f8f2ee",
                    Title |-> "Learn to Build REST API in Go",
                    Author |-> "John Doe", Published |-> FALSE]
    IN Done(SendJSON(w0, "application/json", StatusCreated,
                     Doc("article", article), "Unable to encode JSON"),
            << >>, 0)

\* never reads the body: the article it returns is written in the code
articles_EditArticle(r, n) ==
    LET w0 == NewWriter(r.broken)
        p == Parse(r.id)
        newArticle == [ID |-> p.uuid,
                       Title |-> "Learn to Build REST API in Go",
                       Author |-> "John Doe", Published |-> FALSE]
    IN IF p.err
          THEN Done(Error(w0, "Article ID Not Found", StatusNotFound),
                    << >>, 0)
          ELSE Done(SendJSON(w0, "application/json", StatusOK,
                             Doc("article", newArticle),
                             "Unable to encode JSON"), << >>, 0)

articles_DeleteArticle(r, n) ==
    LET w0 == NewWriter(r.broken)
        p == Parse(r.id)
        article == [ID |-> p.uuid, Title |-> "Learn to Build REST API in Go",
                    Author |-> "John Doe", Published |-> FALSE]
    IN IF p.err
          THEN Done(Error(w0, "Article ID Not Found", StatusNotFound),
                    << >>, 0)
          ELSE Done(WriteHeader(HeaderSet(w0, "application/json"),
                                StatusNoContent),
                    << [deleted |-> article] >>, 0)

(***************************************************************************)
(* Requests                                                                *)
(***************************************************************************)
Rq(id, body, genFail, broken) ==
    [genFail |-> genFail, id |-> id, body |-> body, broken |-> broken]

ProbeIDs == {ClientUUID, "not-a-uuid"}

ListReqs == {Rq("", 1, g, b) : g \in BOOLEAN, b \in BOOLEAN}

\* the identifiers a client can put in a path: a UUID it knows, the same
\* UUID in capitals, two texts that are no UUID, and every UUID the server
\* has handed out so far
IdReqs == {Rq(i, 1, FALSE, FALSE) :
               i \in {ClientUUID, "CB676A46-66FD-4DFB-B839-443F2E6C0B60",
                      "not-a-uuid", ""}
                         \cup {V7(k) : k \in 1..nextID}}
              \cup {Rq(i, 2, FALSE, FALSE) : i \in ProbeIDs}
              \cup {Rq(i, 1, FALSE, TRUE) : i \in ProbeIDs}

CreateReqs == {Rq("", b, FALSE, FALSE) : b \in BodyIx}
                  \cup {Rq("", GoodBody, g, b) : g \in BOOLEAN, b \in BOOLEAN}

UpdateReqs == {Rq(i, b, FALSE, FALSE) :
                  i \in {ClientUUID, OtherUUID, "not-a-uuid", ""},
                  b \in BodyIx}
                  \cup {Rq(i, GoodBody, FALSE, TRUE) : i \in ProbeIDs}

\* arguments of direct service calls
ServiceIDs == {ClientUUID} \cup {V7(i) : i \in 1..nextID}

UserArgs == {[Name |-> "Jane Doe", Email |-> "jane.doe@example.com"],
             [Name |-> "Jo", Email |-> "not-an-email"]}

ArticleArgs == {[Title |-> "On Go", Author |-> "Jane Doe",
                 IsPublished |-> TRUE],
                [Title |-> "", Author |-> "", IsPublished |-> FALSE]}

NoArgs == [none |-> TRUE]

(***************************************************************************)
(* History variables                                                       *)
(***************************************************************************)
NoFields == [none |-> TRUE]

NoHist == [kind |-> "", id |-> "", ev |-> "none", layer |-> "",
           fields |-> NoFields]

NoPrior == [retired |-> FALSE, stored |-> NoFields, reissued |-> FALSE,
            relisted |-> FALSE, listed |-> << >>]

NoRet == [err |-> FALSE, val |-> << >>]

\* a resource without its identifier
Fields(res) == [f \in DOMAIN res \ {"ID"} |-> res[f]]

ZeroOf(kind) ==
    CASE kind = "user" -> ZeroUser
      [] kind = "article" -> ZeroArticle
      [] kind = "comment" -> ZeroComment

SchemaOf(kind) ==
    CASE kind = "user" -> UserSchema
      [] kind = "article" -> ArticleSchema
      [] kind = "comment" -> CommentSchema

\* the fields a request body submits for a resource kind
Submitted(kind, body) ==
    Fields(Decode(Bodies[body], ZeroOf(kind), SchemaOf(kind)).val)

\* the identifier a request is about: the UUID of its path, or the path
\* text itself when that is no UUID
Target(id) == IF Parse(id).err THEN id ELSE Parse(id).uuid

IsSuccess(status) == status \in 200..299

\* the JSON document of a response, if it carries one
HasDoc(rw) ==
    /\ rw.body # << >>
    /\ "json" \in DOMAIN rw.body[1]
    /\ "key" \in DOMAIN rw.body[1].json

DocOf(rw) == rw.body[1].json

Track(op, layer, kind, cls, target, ok, rid, fields) ==
    /\ prior' = [retired |-> /\ hist.ev = "deleted"
                             /\ hist.layer = layer
                             /\ hist.kind = kind
                             /\ hist.id = target
                             /\ cls \in {"Get", "Update", "Delete"},
                 stored |-> IF /\ hist.ev = "created"
                               /\ hist.layer = layer
                               /\ hist.kind = kind
                               /\ hist.id = target
                               /\ cls = "Get"
                               THEN hist.fields ELSE NoFields,
                 reissued |-> /\ cls = "Create"
                              /\ ok
                              /\ hist.ev = "created"
                              /\ hist.id = rid,
                 relisted |-> /\ cls = "List"
                              /\ layer = "handler"
                              /\ req.op = op
                              /\ HasDoc(w),
                 listed |-> IF /\ cls = "List"
                               /\ layer = "handler"
                               /\ req.op = op
                               /\ HasDoc(w)
                               THEN DocOf(w).val ELSE << >>]
    /\ hist' = IF hist.ev = "deleted" THEN hist
               ELSE IF cls = "Delete" /\ ok
                  THEN [kind |-> kind, id |-> target, ev |-> "deleted",
                        layer |-> layer, fields |-> NoFields]
               ELSE IF cls = "Create" /\ ok
                  THEN [kind |-> kind, id |-> rid, ev |-> "created",
                        layer |-> layer, fields |-> fields]
               ELSE hist

\* a handler has served request r and left res; the server completes the
\* response when the handler returns
Respond(op, kind, cls, r, res) ==
    /\ served < MaxRequests
    /\ served' = served + 1
    /\ req' = [genFail |-> r.genFail, kind |-> kind, id |-> r.id,
               body |-> r.body, broken |-> r.broken, gen |-> res.gen,
               layer |-> "handler", op |-> op, cls |-> cls, args |-> NoArgs]
    /\ w' = FinishRequest(res)
    /\ stdout' = res.out
    /\ ret' = NoRet
    /\ nextID' = nextID + res.gen
    /\ UNCHANGED <<route, calls, validate>>
    /\ Track(op, "handler", kind, cls, Target(r.id),
             /\ IsSuccess(FinishRequest(res).status)
             /\ (cls = "Create" => HasDoc(res.w)),
             IF HasDoc(res.w) /\ cls = "Create"
                THEN DocOf(res.w).val.ID ELSE "",
             IF HasDoc(res.w) /\ cls = "Create"
                THEN Fields(DocOf(res.w).val) ELSE NoFields)

\* a service operation was called with (id, args) and returned res
Return(op, kind, cls, id, args, genFail, res) ==
    /\ served < MaxRequests
    /\ served' = served + 1
    /\ req' = [genFail |-> genFail, kind |-> kind, id |-> id, body |-> 1,
               broken |-> FALSE, gen |-> res.gen, layer |-> "service",
               op |-> op, cls |-> cls, args |-> args]
    /\ w' = NewWriter(FALSE)
    /\ stdout' = res.out
    /\ ret' = [err |-> res.err, val |-> res.val]
    /\ nextID' = nextID + res.gen
    /\ UNCHANGED <<route, calls, validate>>
    /\ Track(op, "service", kind, cls, id, ~res.err,
             IF cls = "Create" THEN res.val.ID ELSE "", args)

(***************************************************************************)
(* The six handlers that SetupRoutes names and the source tree does not    *)
(* hold.  They follow the operations of the Resource Controller of the     *)
(* specification (List, Get, Update), with the service of the same name as *)
(* the Resource Store.                                                     *)
(***************************************************************************)
UserHandler_GetAllUsers(r, n) ==
    LET w0 == NewWriter(r.broken)
        s == UserServiceImpl_GetAllUsers(n, r.genFail)
    IN IF s.err
          THEN Done(Error(w0, "Internal Server Error",
                          StatusInternalServerError), s.out, s.gen)
          ELSE Done(SendJSON(w0, JSONAPI, StatusOK, Doc("users", s.val),
                             "Internal Server Error"), s.out, s.gen)

UserHandler_GetUserByID(r, n) ==
    LET w0 == NewWriter(r.broken)
        p == Parse(r.id)
        s == UserServiceImpl_GetUserByID(r.id)
    IN IF p.err \/ s.err
          THEN Done(Error(w0, "Not Found", StatusNotFound), << >>, 0)
          ELSE Done(SendJSON(w0, JSONAPI, StatusOK, Doc("user", s.val),
                             "Internal Server Error"), s.out, s.gen)

UserHandler_UpdateUser(r, n) ==
    LET w0 == NewWriter(r.broken)
        p == Parse(r.id)
        d == Decode(Bodies[r.body], ZeroUser, UserSchema)
        ve == ValidateStruct(UserRules, d.val)
        errors == [i \in 1..Len(ve) |-> ErrorDetail(ve[i])]
        s == UserServiceImpl_UpdateUser(r.id, d.val.Name, d.val.Email)
    IN IF p.err
          THEN Done(Error(w0, "Not Found", StatusNotFound), << >>, 0)
       ELSE IF d.err
          THEN Done(Error(w0, "Bad Request", StatusBadRequest), << >>, 0)
       ELSE IF ve # << >>
          THEN Done(SendJSON(w0, JSONAPI, StatusUnprocessableEntity,
                             Doc("errors", errors),
                             "Internal Server Error"), << >>, 0)
       ELSE IF s.err
          THEN Done(Error(w0, "Not Found", StatusNotFound), s.out, s.gen)
       ELSE Done(SendJSON(w0, JSONAPI, StatusOK, Doc("user", s.val),
                          "Internal Server Error"), s.out, s.gen)

ArticleHandler_GetAllArticles(r, n) ==
    LET w0 == NewWriter(r.broken)
        s == ArticleServiceImpl_GetAllArticles(n, r.genFail)
    IN IF s.err
          THEN Done(Error(w0, "Internal Server Error",
                          StatusInternalServerError), s.out, s.gen)
          ELSE Done(SendJSON(w0, JSONAPI, StatusOK, Doc("articles", s.val),
                             "Internal Server Error"), s.out, s.gen)

ArticleHandler_GetArticleByID(r, n) ==
    LET w0 == NewWriter(r.broken)
        p == Parse(r.id)
        s == ArticleServiceImpl_GetArticleByID(r.id, n, r.genFail)
    IN IF p.err
          THEN Done(Error(w0, "Not Found", StatusNotFound), << >>, 0)
       ELSE IF s.err
          THEN Done(Error(w0, "Not Found", StatusNotFound), s.out, s.gen)
       ELSE Done(SendJSON(w0, JSONAPI, StatusOK, Doc("article", s.val),
                          "Internal Server Error"), s.out, s.gen)

ArticleHandler_UpdateArticle(r, n) ==
    LET w0 == NewWriter(r.broken)
        p == Parse(r.id)
        d == Decode(Bodies[r.body], ZeroArticle, ArticleSchema)
        ve == ValidateStruct(NoRules, d.val)
        errors == [i \in 1..Len(ve) |-> ErrorDetail(ve[i])]
        s == ArticleServiceImpl_UpdateArticle(r.id, d.val.Title, d.val.Author,
                                              d.val.Published, n, r.genFail)
    IN IF p.err
          THEN Done(Error(w0, "Not Found", StatusNotFound), << >>, 0)
       ELSE IF d.err
          THEN Done(Error(w0, "Bad Request", StatusBadRequest), << >>, 0)
       ELSE IF ve # << >>
          THEN Done(SendJSON(w0, JSONAPI, StatusUnprocessableEntity,
                             Doc("errors", errors),
                             "Internal Server Error"), << >>, 0)
       ELSE IF s.err
          THEN Done(Error(w0, "Not Found", StatusNotFound), s.out, s.gen)
       ELSE Done(SendJSON(w0, JSONAPI, StatusOK, Doc("article", s.val),
                          "Internal Server Error"), s.out, s.gen)

\* the handler function registered under a name, applied to request r when
\* n identifiers have been generated
Handler(op, r, n) ==
    CASE op = "UserHandler.GetUsers" -> UserHandler_GetUsers(r, n)
      [] op = "UserHandler.GetUser" -> UserHandler_GetUser(r, n)
      [] op = "UserHandler.EditUser" -> UserHandler_EditUser(r, n)
      [] op = "UserHandler.CreateUser" -> UserHandler_CreateUser(r, n)
      [] op = "UserHandler.DeleteUser" -> UserHandler_DeleteUser(r, n)
      [] op = "ArticleHandler.GetArticles" -> ArticleHandler_GetArticles(r, n)
      [] op = "ArticleHandler.GetArticle" -> ArticleHandler_GetArticle(r, n)
      [] op = "ArticleHandler.CreateArticle" ->
             ArticleHandler_CreateArticle(r, n)
      [] op = "ArticleHandler.EditArticle" -> ArticleHandler_EditArticle(r, n)
      [] op = "ArticleHandler.DeleteArticle" ->
             ArticleHandler_DeleteArticle(r, n)
      [] op = "CommentHandler.GetComments" -> CommentHandler_GetComments(r, n)
      [] op = "CommentHandler.AddComment" -> CommentHandler_AddComment(r, n)
      [] op = "CommentHandler.GetCommentsFromArticle (stub)" ->
             EmptyHandler(r)
      [] op = "comments.GetCommentFromArticle" ->
             EmptyHandler(r)
      [] op = "CommentHandler.RemoveComment" ->
             CommentHandler_RemoveComment(r, n)
      [] op = "CommentHandler.GetAllComments" ->
             CommentHandler_GetAllComments(r, n)
      [] op = "CommentHandler.GetCommentsFromArticle" ->
             CommentHandler_GetCommentsFromArticle(r, n)
      [] op = "CommentHandler.AddCommentToArticle" ->
             CommentHandler_AddCommentToArticle(r, n)
      [] op = "CommentHandler.DeleteCommentFromArticle" ->
             CommentHandler_DeleteCommentFromArticle(r, n)
      [] op = "users.GetUsers" -> users_GetUsers(r, n)
      [] op = "users.GetUser" -> users_GetUser(r, n)
      [] op = "users.UpdateUser" -> users_UpdateUser(r, n)
      [] op = "users.DeleteUser" -> users_DeleteUser(r, n)
      [] op = "users.GetUsersHandler" -> users_GetUsersHandler(r, n)
      [] op = "users.UpdateUser (local User)" ->
             users_UpdateUser_LocalUser(r, n)
      [] op = "users.UpdateUser (early)" -> users_UpdateUser_Early(r, n)
      [] op = "comments.GetComments" -> comments_GetComments(r, n)
      [] op = "articles.GetArticles" -> articles_GetArticles(r, n)
      [] op = "articles.GetArticles (early)" ->
             articles_GetArticles_Early(r, n)
      [] op = "articles.EditArticle" -> articles_EditArticle(r, n)
      [] op = "articles.DeleteArticle" -> articles_DeleteArticle(r, n)
      [] op = "users.GetUser (early)" ->
             users_GetUser_Early(r, n)
      [] op = "articles.GetArticle" ->
             articles_GetArticle(r, n)
      [] op = "articles.GetArticle (early)" ->
             articles_GetArticle_Early(r, n)
      [] op = "articles.CreateArticle" ->
             articles_CreateArticle(r, n)
      [] op = "articles.CreateArticle (early)" ->
             articles_CreateArticle_Early(r, n)
      [] op = "articles.EditArticle (stub)" ->
             EmptyHandler(r)
      [] op = "articles.DeleteArticle (stub)" ->
             EmptyHandler(r)
      [] op = "comments.GetComments (stub)" ->
             EmptyHandler(r)
      [] op = "comments.AddComment (stub)" ->
             EmptyHandler(r)
      [] op = "comments.RemoveComment (stub)" ->
             EmptyHandler(r)
      [] op = "comments.GetComments (early)" ->
             comments_GetComments_Early(r, n)
      [] op = "comments.AddComment (early)" ->
             comments_AddComment_Early(r, n)
      [] op = "comments.AddComment" ->
             comments_AddComment(r, n)
      [] op = "comments.RemoveComment (early)" ->
             comments_RemoveComment_Early(r, n)
      [] op = "comments.RemoveComment" ->
             comments_RemoveComment(r, n)
      [] op = "HelloWorld" ->
             Done(Write(NewWriter(r.broken), [text |-> "Hello World!"]),
                  << >>, 0)
      [] op = "users.GetUsersHandler (NewV7)" ->
             users_GetUsersHandler_NewV7(r, n)
      [] op = "users.GetUsersHandler (message)" ->
             MessageHandler(r, "Hello Jarmos!")
      [] op = "users.GetUser (local User)" ->
             users_GetUser_LocalUser(r, n)
      [] op = "user.GetUserHandler" -> MessageHandler(r, "Hello Jarmos!")
      [] op = "main.handler" -> MessageHandler(r, "Hello World!")
      [] op = "docs.DocsHandler" -> docs_DocsHandler(r, TRUE, FALSE)
      [] op = "docs.DocsHandler (logs.json)" ->
             docs_DocsHandler(r, TRUE, TRUE)
      [] op = "docs.DocsHandler (no template)" ->
             docs_DocsHandler(r, FALSE, FALSE)
      [] op = "docs.DocsHandler (no template, logs.json)" ->
             docs_DocsHandler(r, FALSE, TRUE)
      [] op = "UserHandler.GetAllUsers" -> UserHandler_GetAllUsers(r, n)
      [] op = "UserHandler.GetUserByID" -> UserHandler_GetUserByID(r, n)
      [] op = "UserHandler.UpdateUser" -> UserHandler_UpdateUser(r, n)
      [] op = "ArticleHandler.GetAllArticles" ->
             ArticleHandler_GetAllArticles(r, n)
      [] op = "ArticleHandler.GetArticleByID" ->
             ArticleHandler_GetArticleByID(r, n)
      [] op = "ArticleHandler.UpdateArticle" ->
             ArticleHandler_UpdateArticle(r, n)
      \* http.NotFound, the answer of chi.Mux to a path no route matches
      [] op = "NotFound" ->
             Done(Error(NewWriter(r.broken), "404 page not found",
                        StatusNotFound), << >>, 0)
      \* the answer of chi.Mux to a path that only routes of other methods
      \* match: w.WriteHeader(405) and w.Write(nil), which adds no byte
      [] op = "MethodNotAllowed" ->
             Done(WriteHeader(NewWriter(r.broken), StatusMethodNotAllowed),
                  << >>, 0)

(***************************************************************************)
(* Actions: one for each handler and each service operation                *)
(***************************************************************************)
DoUserHandlerGetUsers ==
    \E r \in ListReqs :
        Respond("UserHandler.GetUsers", "user", "List", r,
                UserHandler_GetUsers(r, nextID))

DoUserHandlerGetUser ==
    \E r \in IdReqs :
        Respond("UserHandler.GetUser", "user", "Get", r,
                UserHandler_GetUser(r, nextID))

DoUserHandlerEditUser ==
    \E r \in UpdateReqs :
        Respond("UserHandler.EditUser", "user", "Update", r,
                UserHandler_EditUser(r, nextID))

DoUserHandlerCreateUser ==
    \E r \in CreateReqs :
        Respond("UserHandler.CreateUser", "user", "Create", r,
                UserHandler_CreateUser(r, nextID))

DoUserHandlerDeleteUser ==
    \E r \in IdReqs :
        Respond("UserHandler.DeleteUser", "user", "Delete", r,
                UserHandler_DeleteUser(r, nextID))

DoArticleHandlerGetArticles ==
    \E r \in ListReqs :
        Respond("ArticleHandler.GetArticles", "article", "List", r,
                ArticleHandler_GetArticles(r, nextID))

DoArticleHandlerGetArticle ==
    \E r \in IdReqs :
        Respond("ArticleHandler.GetArticle", "article", "Get", r,
                ArticleHandler_GetArticle(r, nextID))

DoArticleHandlerCreateArticle ==
    \E r \in CreateReqs :
        Respond("ArticleHandler.CreateArticle", "article", "Create", r,
                ArticleHandler_CreateArticle(r, nextID))

DoArticleHandlerEditArticle ==
    \E r \in UpdateReqs :
        Respond("ArticleHandler.EditArticle", "article", "Update", r,
                ArticleHandler_EditArticle(r, nextID))

DoArticleHandlerDeleteArticle ==
    \E r \in IdReqs :
        Respond("ArticleHandler.DeleteArticle", "article", "Delete", r,
                ArticleHandler_DeleteArticle(r, nextID))

DoCommentHandlerGetComments ==
    \E r \in ListReqs :
        Respond("CommentHandler.GetComments", "comment", "List", r,
                CommentHandler_GetComments(r, nextID))

DoCommentHandlerAddComment ==
    \E r \in CreateReqs :
        Respond("CommentHandler.AddComment", "comment", "Create", r,
                CommentHandler_AddComment(r, nextID))

DoCommentsGetCommentFromArticle ==
    \E r \in IdReqs :
        Respond("comments.GetCommentFromArticle", "comment", "List", r,
                EmptyHandler(r))

DoCommentHandlerRemoveComment ==
    \E r \in IdReqs :
        Respond("CommentHandler.RemoveComment", "comment", "Delete", r,
                CommentHandler_RemoveComment(r, nextID))

DoCommentHandlerGetAllComments ==
    \E r \in ListReqs :
        Respond("CommentHandler.GetAllComments", "comment", "List", r,
                CommentHandler_GetAllComments(r, nextID))

\* the handler and the revision of it that had no body
DoCommentHandlerGetCommentsFromArticle ==
    \E r \in {Rq(i, 1, g, b) :
                  i \in ProbeIDs, g \in BOOLEAN, b \in BOOLEAN},
       op \in {"CommentHandler.GetCommentsFromArticle",
                "CommentHandler.GetCommentsFromArticle (stub)"} :
        Respond(op, "comment", "List", r,
                CASE op = "CommentHandler.GetCommentsFromArticle" ->
                         CommentHandler_GetCommentsFromArticle(r, nextID)
                  [] op = "CommentHandler.GetCommentsFromArticle (stub)" ->
                         EmptyHandler(r))

DoCommentHandlerAddCommentToArticle ==
    \E r \in CreateReqs :
        Respond("CommentHandler.AddCommentToArticle", "comment", "Create", r,
                CommentHandler_AddCommentToArticle(r, nextID))

DoCommentHandlerDeleteCommentFromArticle ==
    \E r \in IdReqs :
        Respond("CommentHandler.DeleteCommentFromArticle", "comment",
                "Delete", r,
                CommentHandler_DeleteCommentFromArticle(r, nextID))

DoUsersGetUsers ==
    \E r \in ListReqs :
        Respond("users.GetUsers", "user", "List", r,
                users_GetUsers(r, nextID))

\* the handler and the revision of it that did not parse the identifier
DoUsersGetUser ==
    \E r \in IdReqs,
       op \in {"users.GetUser",
                "users.GetUser (local User)",
                "users.GetUser (early)"} :
        Respond(op, "user", "Get", r,
                CASE op = "users.GetUser" ->
                         users_GetUser(r, nextID)
                  [] op = "users.GetUser (local User)" ->
                         users_GetUser_LocalUser(r, nextID)
                  [] op = "users.GetUser (early)" ->
                         users_GetUser_Early(r, nextID))

\* the handler and its two earlier revisions
DoUsersUpdateUser ==
    \E r \in UpdateReqs,
       op \in {"users.UpdateUser",
                "users.UpdateUser (local User)",
                "users.UpdateUser (early)"} :
        Respond(op, "user", "Update", r,
                CASE op = "users.UpdateUser" ->
                         users_UpdateUser(r, nextID)
                  [] op = "users.UpdateUser (local User)" ->
                         users_UpdateUser_LocalUser(r, nextID)
                  [] op = "users.UpdateUser (early)" ->
                         users_UpdateUser_Early(r, nextID))

DoUsersDeleteUser ==
    \E r \in IdReqs :
        Respond("users.DeleteUser", "user", "Delete", r,
                users_DeleteUser(r, nextID))

\* the handler with the two literal users, the revision that generates
\* their identifier and the revision that answers with a message
DoUsersGetUsersHandler ==
    \E r \in ListReqs,
       op \in {"users.GetUsersHandler",
                "users.GetUsersHandler (NewV7)",
                "users.GetUsersHandler (message)"} :
        Respond(op, "user", "List", r,
                CASE op = "users.GetUsersHandler" ->
                         users_GetUsersHandler(r, nextID)
                  [] op = "users.GetUsersHandler (NewV7)" ->
                         users_GetUsersHandler_NewV7(r, nextID)
                  [] op = "users.GetUsersHandler (message)" ->
                         MessageHandler(r, "Hello Jarmos!"))

\* package user: the message handler
DoUserGetUserHandler ==
    \E r \in ListReqs :
        Respond("user.GetUserHandler", "", "", r,
                MessageHandler(r, "Hello Jarmos!"))

\* the handler the main program registers for every path
DoMainHandler ==
    \E r \in ListReqs :
        Respond("main.handler", "", "", r,
                MessageHandler(r, "Hello World!"))

\* package docs: the page, with the template there or not and the logger
\* on standard output or on logs.json
DoDocsDocsHandler ==
    \E r \in ListReqs, found \in BOOLEAN, quiet \in BOOLEAN :
        Respond(CASE found /\ ~quiet -> "docs.DocsHandler"
                  [] found /\ quiet -> "docs.DocsHandler (logs.json)"
                  [] ~found /\ ~quiet -> "docs.DocsHandler (no template)"
                  [] ~found /\ quiet ->
                         "docs.DocsHandler (no template, logs.json)",
                "", "", r, docs_DocsHandler(r, found, quiet))

\* the handler and its two earlier revisions
DoCommentsGetComments ==
    \E r \in ListReqs,
       op \in {"comments.GetComments",
                "comments.GetComments (early)",
                "comments.GetComments (stub)"} :
        Respond(op, "comment", "List", r,
                CASE op = "comments.GetComments" ->
                         comments_GetComments(r, nextID)
                  [] op = "comments.GetComments (early)" ->
                         comments_GetComments_Early(r, nextID)
                  [] op = "comments.GetComments (stub)" ->
                         EmptyHandler(r))

\* the handler and its earlier revision
DoArticlesGetArticles ==
    \E r \in ListReqs,
       op \in {"articles.GetArticles",
                "articles.GetArticles (early)"} :
        Respond(op, "article", "List", r,
                CASE op = "articles.GetArticles" ->
                         articles_GetArticles(r, nextID)
                  [] op = "articles.GetArticles (early)" ->
                         articles_GetArticles_Early(r, nextID))

\* the handler and the revision of it that had no body
DoArticlesEditArticle ==
    \E r \in UpdateReqs,
       op \in {"articles.EditArticle",
                "articles.EditArticle (stub)"} :
        Respond(op, "article", "Update", r,
                CASE op = "articles.EditArticle" ->
                         articles_EditArticle(r, nextID)
                  [] op = "articles.EditArticle (stub)" ->
                         EmptyHandler(r))

\* the handler and the revision of it that had no body
DoArticlesDeleteArticle ==
    \E r \in IdReqs,
       op \in {"articles.DeleteArticle",
                "articles.DeleteArticle (stub)"} :
        Respond(op, "article", "Delete", r,
                CASE op = "articles.DeleteArticle" ->
                         articles_DeleteArticle(r, nextID)
                  [] op = "articles.DeleteArticle (stub)" ->
                         EmptyHandler(r))

\* the handler and the revision of it that did not parse the identifier
DoArticlesGetArticle ==
    \E r \in IdReqs,
       op \in {"articles.GetArticle",
                "articles.GetArticle (early)"} :
        Respond(op, "article", "Get", r,
                CASE op = "articles.GetArticle" ->
                         articles_GetArticle(r, nextID)
                  [] op = "articles.GetArticle (early)" ->
                         articles_GetArticle_Early(r, nextID))

\* the handler and the revision of it with a literal identifier
DoArticlesCreateArticle ==
    \E r \in CreateReqs,
       op \in {"articles.CreateArticle",
                "articles.CreateArticle (early)"} :
        Respond(op, "article", "Create", r,
                CASE op = "articles.CreateArticle" ->
                         articles_CreateArticle(r, nextID)
                  [] op = "articles.CreateArticle (early)" ->
                         articles_CreateArticle_Early(r, nextID))

\* the handler and its two earlier revisions
DoCommentsAddComment ==
    \E r \in CreateReqs,
       op \in {"comments.AddComment",
                "comments.AddComment (early)",
                "comments.AddComment (stub)"} :
        Respond(op, "comment", "Create", r,
                CASE op = "comments.AddComment" ->
                         comments_AddComment(r, nextID)
                  [] op = "comments.AddComment (early)" ->
                         comments_AddComment_Early(r, nextID)
                  [] op = "comments.AddComment (stub)" ->
                         EmptyHandler(r))

\* the handler and its two earlier revisions
DoCommentsRemoveComment ==
    \E r \in IdReqs,
       op \in {"comments.RemoveComment",
                "comments.RemoveComment (early)",
                "comments.RemoveComment (stub)"} :
        Respond(op, "comment", "Delete", r,
                CASE op = "comments.RemoveComment" ->
                         comments_RemoveComment(r, nextID)
                  [] op = "comments.RemoveComment (early)" ->
                         comments_RemoveComment_Early(r, nextID)
                  [] op = "comments.RemoveComment (stub)" ->
                         EmptyHandler(r))

CallUserServiceGetAllUsers ==
    \E g \in BOOLEAN :
        Return("UserServiceImpl.GetAllUsers", "user", "List", "", NoArgs, g,
               UserServiceImpl_GetAllUsers(nextID, g))

CallUserServiceGetUserByID ==
    \E id \in ServiceIDs :
        Return("UserServiceImpl.GetUserByID", "user", "Get", id, NoArgs,
               FALSE, UserServiceImpl_GetUserByID(id))

CallUserServiceCreateUser ==
    \E a \in UserArgs, g \in BOOLEAN :
        Return("UserServiceImpl.CreateUser", "user", "Create", "", a, g,
               UserServiceImpl_CreateUser(a.Name, a.Email, nextID, g))

CallUserServiceUpdateUser ==
    \E id \in ServiceIDs, a \in UserArgs :
        Return("UserServiceImpl.UpdateUser", "user", "Update", id, a, FALSE,
               UserServiceImpl_UpdateUser(id, a.Name, a.Email))

CallUserServiceDeleteUser ==
    \E id \in ServiceIDs :
        Return("UserServiceImpl.DeleteUser", "user", "Delete", id, NoArgs,
               FALSE, UserServiceImpl_DeleteUser(id))

CallCommentServiceGetAllComments ==
    \E g \in BOOLEAN :
        Return("CommentServiceImpl.GetAllComments", "comment", "List", "",
               NoArgs, g, CommentServiceImpl_GetAllComments(nextID, g))

CallCommentServiceGetCommentsFromArticle ==
    \E g \in BOOLEAN :
        Return("CommentServiceImpl.GetCommentsFromArticle", "comment", "List",
               "", NoArgs, g,
               CommentServiceImpl_GetCommentsFromArticle(nextID, g))

CallCommentServiceAddCommentToArticle ==
    \E a \in {[Name |-> "Jane Doe", Email |-> "jane@example.com",
                Content |-> "Nice read"]},
       g \in BOOLEAN :
        Return("CommentServiceImpl.AddCommentToArticle", "comment", "Create",
               "", a, g,
               CommentServiceImpl_AddCommentToArticle(
                   a.Name, a.Email, a.Content, nextID, g))

CallCommentServiceDeleteCommentFromArticle ==
    Return("CommentServiceImpl.DeleteCommentFromArticle", "comment", "Delete",
           "", NoArgs, FALSE, CommentServiceImpl_DeleteCommentFromArticle)

CallArticleServiceGetAllArticles ==
    \E g \in BOOLEAN :
        Return("ArticleServiceImpl.GetAllArticles", "article", "List", "",
               NoArgs, g, ArticleServiceImpl_GetAllArticles(nextID, g))

CallArticleServiceGetArticleByID ==
    \E id \in ServiceIDs, g \in BOOLEAN :
        Return("ArticleServiceImpl.GetArticleByID", "article", "Get", id,
               NoArgs, g, ArticleServiceImpl_GetArticleByID(id, nextID, g))

CallArticleServiceCreateArticle ==
    \E a \in ArticleArgs, g \in BOOLEAN :
        Return("ArticleServiceImpl.CreateArticle", "article", "Create", "",
               a, g,
               ArticleServiceImpl_CreateArticle(
                   a.Title, a.Author, a.IsPublished, nextID, g))

CallArticleServiceUpdateArticle ==
    \E id \in ServiceIDs, a \in ArticleArgs, g \in BOOLEAN :
        Return("ArticleServiceImpl.UpdateArticle", "article", "Update", id,
               a, g,
               ArticleServiceImpl_UpdateArticle(
                   id, a.Title, a.Author, a.IsPublished, nextID, g))

CallArticleServiceDeleteArticle ==
    \E id \in ServiceIDs :
        Return("ArticleServiceImpl.DeleteArticle", "article", "Delete", id,
               NoArgs, FALSE, ArticleServiceImpl_DeleteArticle(id))

(***************************************************************************)
(* The route tables.  A path is the sequence of its segments; a pattern is *)
(* a path in which "{id}" stands for any segment.                          *)
(***************************************************************************)
Route(method, pattern, handler) ==
    [method |-> method, pattern |-> pattern, handler |-> handler]

\* package routes
SetupRoutes ==
    {Route("GET", <<"users">>, "UserHandler.GetAllUsers"),
     Route("PUT", <<"users", "new">>, "UserHandler.CreateUser"),
     Route("GET", <<"users", "{id}">>, "UserHandler.GetUserByID"),
     Route("POST", <<"users", "{id}", "edit">>, "UserHandler.UpdateUser"),
     Route("DELETE", <<"users", "{id}", "delete">>,
           "UserHandler.DeleteUser"),
     Route("GET", <<"articles">>, "ArticleHandler.GetAllArticles"),
     Route("PUT", <<"articles", "new">>, "ArticleHandler.CreateArticle"),
     Route("GET", <<"articles", "{id}">>, "ArticleHandler.GetArticleByID"),
     Route("POST", <<"articles", "{id}", "edit">>,
           "ArticleHandler.UpdateArticle"),
     Route("DELETE", <<"articles", "{id}", "delete">>,
           "ArticleHandler.DeleteArticle"),
     Route("GET", <<"comments">>, "CommentHandler.GetAllComments"),
     Route("GET", <<"comments", "article", "{id}">>,
           "CommentHandler.GetCommentsFromArticle"),
     Route("POST", <<"comments", "article", "{id}", "new">>,
           "CommentHandler.AddCommentToArticle"),
     Route("DELETE", <<"comments", "{id}", "delete">>,
           "CommentHandler.DeleteCommentFromArticle")}

\* Server.MountHandlers
MountHandlers ==
    {Route("GET", <<"users">>, "users.GetUsers"),
     Route("GET", <<"users", "{id}">>, "users.GetUser"),
     Route("POST", <<"users", "{id}", "edit">>, "users.UpdateUser"),
     Route("DELETE", <<"users", "{id}", "delete">>, "users.DeleteUser"),
     Route("GET", <<"articles">>, "articles.GetArticles"),
     Route("GET", <<"articles", "{id}">>, "articles.GetArticle"),
     Route("POST", <<"articles", "new">>, "articles.CreateArticle"),
     Route("PUT", <<"articles", "{id}", "edit">>, "articles.EditArticle"),
     Route("DELETE", <<"articles", "{id}", "delete">>,
           "articles.DeleteArticle"),
     Route("GET", <<"comments">>, "comments.GetComments"),
     Route("GET", <<"comments", "article", "{id}">>,
           "comments.GetCommentFromArticle"),
     Route("POST", <<"comments", "article", "{id}", "new">>,
           "comments.AddComment"),
     Route("DELETE", <<"comments", "{id}", "delete">>,
           "comments.RemoveComment")}

\* Server.MountHandlers before the routes were grouped by resource
MountHandlers_Flat ==
    {Route("GET", << >>, "HelloWorld"),
     Route("GET", <<"users">>, "users.GetUsersHandler"),
     Route("GET", <<"users", "{id}">>, "users.GetUser"),
     Route("POST", <<"users", "{id}", "edit">>, "users.UpdateUser"),
     Route("DELETE", <<"users", "{id}", "delete">>, "users.DeleteUser"),
     Route("GET", <<"articles">>, "articles.GetArticles"),
     Route("GET", <<"articles", "{id}">>, "articles.GetArticle"),
     Route("POST", <<"articles", "{id}", "new">>, "articles.CreateArticle"),
     Route("PUT", <<"articles", "{id}", "edit">>, "articles.EditArticle"),
     Route("DELETE", <<"articles", "{id}", "delete">>,
           "articles.DeleteArticle")}

\* chi: a pattern matches a path segment by segment
Matches(pattern, path) ==
    /\ Len(pattern) = Len(path)
    /\ \A i \in 1..Len(path) :
           \/ pattern[i] = path[i]
           \/ pattern[i] = "{id}" /\ path[i] # ""

\* chi.Mux: the handler a request reaches and what chi.URLParam(r, "id")
\* gives that handler, the segment the route found binds to {id}.  A path
\* that only routes of other methods match is answered 405, a path no
\* route matches 404.  chi tries the static segment before the parameter.
Dispatch(routes, method, path) ==
    LET Before(p, q) ==
            \E i \in 1..Len(p) :
                /\ p[i] # "{id}"
                /\ q[i] = "{id}"
                /\ \A j \in 1..(i - 1) : p[j] = q[j]
        hits == {r \in routes : Matches(r.pattern, path)}
        allowed == {r \in hits : r.method = method}
        found == CHOOSE r \in allowed :
                     \A o \in allowed : ~Before(o.pattern, r.pattern)
        at == {i \in 1..Len(path) : found.pattern[i] = "{id}"}
    IN IF allowed # {}
          THEN [id |-> IF at = {} THEN "" ELSE path[CHOOSE i \in at : TRUE],
                handler |-> found.handler]
       ELSE IF hits # {} THEN [id |-> "", handler |-> "MethodNotAllowed"]
       ELSE [id |-> "", handler |-> "NotFound"]

\* a request arrives at the router that was set up from a table
RouteInit ==
    /\ req = [genFail |-> FALSE, kind |-> "", id |-> "", body |-> 1,
              broken |-> FALSE, gen |-> 0, layer |-> "", op |-> "",
              cls |-> "", args |-> NoArgs]
    /\ w = NewWriter(FALSE)
    /\ ret = NoRet
    /\ stdout = << >>
    /\ nextID = 0
    /\ served = 0
    /\ hist = NoHist
    /\ prior = NoPrior
    /\ calls = [i \in 1..MaxInFlight |->
                   [w |-> NewWriter(FALSE), n |-> 0, r |-> Rq("", 1, FALSE, FALSE),
                    ve |-> << >>, updatedUser |-> ZeroUser, op |-> "",
                    method |-> "", path |-> << >>,
                    pc |-> "idle", userID |-> Nil,
                    arg |-> ZeroUser, overlap |-> FALSE]]
    /\ validate = [structCache |-> {}]
    /\ \E t \in {"SetupRoutes", "MountHandlers", "MountHandlers (flat)"},
          m \in {"GET", "POST", "PUT", "PATCH", "DELETE"},
          p \in {<< >>}
                    \cup {<<k>> : k \in {"users", "articles", "comments"}}
                    \cup {<<k, s>> :
                              k \in {"users", "articles", "comments"},
                              s \in {"new", ClientUUID, "not-a-uuid"}}
                    \cup {<<k, i, s>> :
                              k \in {"users", "articles", "comments"},
                              i \in {ClientUUID, "not-a-uuid"},
                              s \in {"edit", "delete", "new"}}
                    \cup {<<"comments", "article", i>> :
                              i \in {ClientUUID, "new"}}
                    \cup {<<"comments", "article", i, "new">> :
                              i \in {ClientUUID, "not-a-uuid"}} :
           route = [method |-> m, handler |-> "", path |-> p, table |-> t]

\* chi.Mux.ServeHTTP, after the route was found: the function op that the
\* build holds under the name h has answered request r with res.  logs
\* tells whether the router was given middleware.Logger, which prints one
\* line on standard output when the handler has returned: the method, the
\* path and the status the handler committed (0 when it committed none);
\* the time, the address, the size and the duration of the line are left
\* out.
Answer(h, op, r, res, logs) ==
    /\ route' = [route EXCEPT !.handler = h]
    /\ req' = [genFail |-> r.genFail, kind |-> "", id |-> r.id,
               body |-> r.body, broken |-> r.broken,
               gen |-> res.gen, layer |-> "router", op |-> op,
               cls |-> "", args |-> NoArgs]
    /\ w' = FinishRequest(res)
    /\ stdout' = IF logs
                    THEN Append(res.out,
                                [log |-> [status |-> res.w.status,
                                          method |-> route.method,
                                          path |-> route.path]])
                 ELSE res.out
    /\ nextID' = nextID + res.gen
    /\ served' = served + 1
    /\ UNCHANGED <<ret, hist, prior, calls, validate>>

\* the functions a build can hold under the name h that a table registers.
\* The flat table needs GetUsersHandler, GetUser, UpdateUser and DeleteUser
\* of package users, which only the revision with its own User declares;
\* the table of MountHandlers needs GetUsers, which only the revision on
\* models.User declares.  Either revision of package articles and any of
\* the three of package comments declares every name asked of it.
Linked(table, h) ==
    CASE table = "MountHandlers (flat)" /\ h = "users.GetUsersHandler" ->
             {"users.GetUsersHandler (NewV7)"}
      [] table = "MountHandlers (flat)"
             /\ h \in {"users.GetUser", "users.UpdateUser"} ->
             {h \o " (local User)"}
      [] h \in {"articles.GetArticles", "articles.GetArticle",
                "articles.CreateArticle"} ->
             {h, h \o " (early)"}
      [] h \in {"articles.EditArticle", "articles.DeleteArticle"} ->
             {h, h \o " (stub)"}
      [] h \in {"comments.GetComments", "comments.AddComment",
                "comments.RemoveComment"} ->
             {h, h \o " (early)", h \o " (stub)"}
      [] OTHER -> {h}

\* chi.Mux.ServeHTTP: the router finds the handler of the request and
\* calls it, or answers 404 or 405 itself
ServeHTTP(table, routes, logs) ==
    /\ route.table = table
    /\ route.handler = ""
    /\ \E b \in BodyIx, g \in BOOLEAN, k \in BOOLEAN,
          op \in Linked(table,
                        Dispatch(routes, route.method, route.path).handler) :
           /\ b = GoodBody \/ (~g /\ ~k)
           /\ Answer(Dispatch(routes, route.method, route.path).handler, op,
                     Rq(Dispatch(routes, route.method, route.path).id,
                        b, g, k),
                     Handler(op,
                             Rq(Dispatch(routes, route.method, route.path).id,
                                b, g, k),
                             nextID),
                     logs)

ServeSetupRoutes == ServeHTTP("SetupRoutes", SetupRoutes, FALSE)

ServeMountHandlers == ServeHTTP("MountHandlers", MountHandlers, TRUE)

ServeMountHandlersFlat ==
    ServeHTTP("MountHandlers (flat)", MountHandlers_Flat, TRUE)

RouteNext ==
    \/ ServeSetupRoutes
    \/ ServeMountHandlers
    \/ ServeMountHandlersFlat

RouteSpec == RouteInit /\ [][RouteNext]_vars

Init ==
    /\ req = [genFail |-> FALSE, kind |-> "", id |-> "", body |-> 1,
              broken |-> FALSE, gen |-> 0, layer |-> "", op |-> "",
              cls |-> "", args |-> NoArgs]
    /\ w = NewWriter(FALSE)
    /\ ret = NoRet
    /\ stdout = << >>
    /\ nextID = 0
    /\ served = 0
    /\ hist = NoHist
    /\ prior = NoPrior
    /\ route = [method |-> "", handler |-> "", path |-> << >>, table |-> ""]
    /\ calls = [i \in 1..MaxInFlight |->
                   [w |-> NewWriter(FALSE), n |-> 0, r |-> Rq("", 1, FALSE, FALSE),
                    ve |-> << >>, updatedUser |-> ZeroUser, op |-> "",
                    method |-> "", path |-> << >>,
                    pc |-> "idle", userID |-> Nil,
                    arg |-> ZeroUser, overlap |-> FALSE]]
    /\ validate = [structCache |-> {}]

(***************************************************************************)
(* Requests served at the same time.  net/http runs the handler of each    *)
(* request in a goroutine of its own.  A call has the request, the locals  *)
(* of its handler (userID, updatedUser, the identifier n it took from the  *)
(* generator, the argument arg and the result ve of validate.Struct), its  *)
(* response writer and the place pc it has reached.  All calls share the   *)
(* package-level validator of package users with the cache of the struct   *)
(* types it has seen (validate), the UUID generator (nextID) and standard  *)
(* output (stdout).  A step is one access to what the calls share, or the  *)
(* response written to the call's own connection, together with the work   *)
(* on locals that comes before it.  overlap remembers that a call entered  *)
(* validate.Struct while another call held a decoded body that it had not  *)
(* validated yet.                                                          *)
(***************************************************************************)
\* the process has built its server from one of the two tables of
\* Server.MountHandlers and has served nothing
ConcInit ==
    /\ req = [genFail |-> FALSE, kind |-> "", id |-> "", body |-> 1,
              broken |-> FALSE, gen |-> 0, layer |-> "", op |-> "",
              cls |-> "", args |-> NoArgs]
    /\ w = NewWriter(FALSE)
    /\ ret = NoRet
    /\ stdout = << >>
    /\ nextID = 0
    /\ served = 0
    /\ hist = NoHist
    /\ prior = NoPrior
    /\ \E t \in {"MountHandlers", "MountHandlers (flat)"} :
           route = [method |-> "", handler |-> "", path |-> << >>,
                    table |-> t]
    /\ calls = [i \in 1..MaxInFlight |-> 
                   [w |-> NewWriter(FALSE), n |-> 0, r |-> Rq("", 1, FALSE, FALSE),
                    ve |-> << >>, updatedUser |-> ZeroUser, op |-> "",
                    method |-> "", path |-> << >>,
                    pc |-> "idle", userID |-> Nil,
                    arg |-> ZeroUser, overlap |-> FALSE]]
    /\ validate = [structCache |-> {}]

\* variant that declares updatedUser at package level: every call decodes
\* into the same variable
UserVar_PackageLevel(i) == 1

\* the call whose variable updatedUser call i reads and writes: the
\* handler declares it in its body, so each call has its own
UserVar(i) == i

\* http.Server.Serve and chi.Mux.ServeHTTP: a request arrives, for one of
\* the routes of the table, for a path that no route matches or with a
\* method that no route of its path allows; the router finds the handler
\* and the handler starts (the router answers 404 and 405 by a handler of
\* its own).  Calls are numbered in the order of their arrival.  UpdateUser
\* is sent every body with a UUID, and the body that breaks no rule with a
\* text that is no UUID and over a connection that fails; the other
\* handlers are sent a UUID and the body that breaks no rule, and a handler
\* that takes an identifier from the generator is also run with a
\* generator that fails.  The handler starts at its first access to what
\* the calls share: uuid.NewV7, fmt.Printf, or none before its response.
ServeConn ==
    \E i \in {c \in 1..MaxInFlight :
                  /\ calls[c].pc = "idle"
                  /\ \A j \in 1..(c - 1) : calls[j].pc # "idle"},
       rt \in (IF route.table = "MountHandlers"
                  THEN MountHandlers ELSE MountHandlers_Flat)
                 \cup {Route("GET", <<"missing">>, "NotFound"),
                       Route("PATCH", <<"users">>, "MethodNotAllowed")},
       id \in ProbeIDs, b \in BodyIx, g \in BOOLEAN, k \in BOOLEAN :
        LET routes == IF route.table = "MountHandlers"
                         THEN MountHandlers ELSE MountHandlers_Flat
            path == [s \in 1..Len(rt.pattern) |->
                        IF rt.pattern[s] = "{id}" THEN id
                        ELSE rt.pattern[s]]
            found == Dispatch(routes, rt.method, path)
            Entry(op) ==
                IF found.handler = "users.UpdateUser" THEN "decode"
                ELSE IF op \in {"users.GetUsers",
                                "users.GetUsersHandler (NewV7)",
                                "articles.GetArticles",
                                "articles.CreateArticle",
                                "comments.GetComments",
                                "comments.AddComment"} THEN "newv7"
                ELSE IF op \in {"users.DeleteUser",
                                "articles.DeleteArticle",
                                "comments.RemoveComment",
                                "comments.RemoveComment (early)"}
                   THEN "printf"
                ELSE "respond"
        IN \E op \in Linked(route.table, found.handler) :
               /\ found.handler = "users.UpdateUser"
                      \/ (id = ClientUUID /\ b = GoodBody /\ ~k)
               /\ (id = ClientUUID /\ ~k) \/ b = GoodBody
               /\ id = ClientUUID \/ ~k
               /\ ~g \/ Entry(op) = "newv7"
               /\ calls' = [calls EXCEPT
                               ![i].pc = Entry(op),
                               ![i].op = op,
                               ![i].r = Rq(found.id, b, g, k),
                               ![i].method = rt.method,
                               ![i].path = path,
                               ![i].w = NewWriter(k)]
               /\ UNCHANGED <<req, w, ret, stdout, nextID, served, hist,
                              prior, route, validate>>

\* UpdateUser up to the decoded body: the identifier is parsed and the body
\* is decoded into updatedUser; an identifier that is no UUID is answered
\* 404 and a body that cannot be decoded 400
UpdateUser_Decode ==
    \E i \in 1..MaxInFlight :
        LET p == Parse(calls[i].r.id)
            d == Decode(Bodies[calls[i].r.body], ZeroUser, UserSchema)
        IN /\ calls[i].pc = "decode"
           /\ calls' =
                  IF p.err
                     THEN [calls EXCEPT
                              ![i].pc = "logger",
                              ![i].w = Error(@, "User ID Not Found",
                                             StatusNotFound)]
                  ELSE IF d.err
                     THEN [calls EXCEPT
                              ![i].pc = "logger",
                              ![i].w = Error(@, "Invalid request body",
                                             StatusBadRequest)]
                  ELSE [calls EXCEPT
                           ![i].pc = "validate",
                           ![i].userID = p.uuid,
                           ![UserVar(i)].updatedUser = d.val]
           /\ UNCHANGED <<req, w, ret, stdout, nextID, served, hist, prior,
                          route, validate>>

\* validate.Struct(updatedUser), up to the cache: the argument is a copy of
\* the variable; the validator looks the struct type up in its cache
\* without a lock and, when the type is there, checks the fields by the
\* rules it finds.  The object the validator works with comes from a pool
\* that gives it to one call at a time, and the errors it returns are
\* handed over to the caller.
validate_Struct ==
    \E i \in 1..MaxInFlight :
        LET type == IF calls[i].op = "users.UpdateUser"
                       THEN "models.User" ELSE "users.User"
            hit == {c \in validate.structCache : c.type = type}
        IN /\ calls[i].pc = "validate"
           /\ calls' =
                  [calls EXCEPT
                      ![i].pc = IF hit = {} THEN "extract" ELSE "respond",
                      ![i].arg = calls[UserVar(i)].updatedUser,
                      ![i].ve =
                          IF hit = {} THEN << >>
                          ELSE ValidateStruct(
                                   (CHOOSE c \in hit : TRUE).rules,
                                   calls[UserVar(i)].updatedUser),
                      ![i].overlap =
                          \E j \in 1..MaxInFlight :
                              /\ j # i
                              /\ calls[j].pc \in {"validate", "extract"}]
           /\ UNCHANGED <<req, w, ret, stdout, nextID, served, hist, prior,
                          route, validate>>

\* validate.Struct after a miss: under the mutex of the cache the validator
\* looks again, parses the validate:"..." tags of the type when it is still
\* not there, stores the rules and releases the mutex; then it checks the
\* fields
extractStructCache ==
    \E i \in 1..MaxInFlight :
        LET type == IF calls[i].op = "users.UpdateUser"
                       THEN "models.User" ELSE "users.User"
            hit == {c \in validate.structCache : c.type = type}
            rules == IF hit # {} THEN (CHOOSE c \in hit : TRUE).rules
                     ELSE IF type = "models.User" THEN UserRules
                     ELSE LocalUserRules
        IN /\ calls[i].pc = "extract"
           /\ validate' = [validate EXCEPT
                               !.structCache =
                                   @ \cup {[rules |-> rules, type |-> type]}]
           /\ calls' = [calls EXCEPT
                           ![i].pc = "respond",
                           ![i].ve = ValidateStruct(rules, calls[i].arg)]
           /\ UNCHANGED <<req, w, ret, stdout, nextID, served, hist, prior,
                          route>>

\* uuid.NewV7: the handler takes the next identifier of the generator that
\* all calls share, the one after the n that were taken before; a generator
\* that fails hands out none
uuid_NewV7 ==
    \E i \in 1..MaxInFlight :
        /\ calls[i].pc = "newv7"
        /\ nextID' = IF NewV7(nextID, calls[i].r.genFail).err
                         THEN nextID ELSE nextID + 1
        /\ calls' = [calls EXCEPT ![i].pc = "respond", ![i].n = nextID]
        /\ UNCHANGED <<req, w, ret, stdout, served, hist, prior, route,
                       validate>>

\* fmt.Printf in a handler: the text goes to the standard output of the
\* process
Handler_Printf ==
    \E i \in 1..MaxInFlight :
        /\ calls[i].pc = "printf"
        /\ stdout' = stdout
                         \o Handler(calls[i].op, calls[i].r, calls[i].n).out
        /\ calls' = [calls EXCEPT ![i].pc = "respond"]
        /\ UNCHANGED <<req, w, ret, nextID, served, hist, prior, route,
                       validate>>

\* the handler writes its response to the connection of its call and
\* returns.  UpdateUser converts the errors of the validator into the 422
\* document, and builds the 201 document from updatedUser when there are
\* none; updatedUser is a struct value, so that the error of the validator
\* is nil or ValidationErrors.
WriteResponse ==
    \E i \in 1..MaxInFlight :
        LET updatedUser == calls[UserVar(i)].updatedUser
            ve == calls[i].ve
            errorResponse == [k \in 1..Len(ve) |-> ErrorDetail(ve[k])]
            e == Encode(WriteHeader(HeaderSet(calls[i].w, JSONAPI),
                                    StatusUnprocessableEntity),
                        Doc("errors", errorResponse))
            user == [ID |-> calls[i].userID, Name |-> updatedUser.Name,
                     Email |-> updatedUser.Email]
        IN /\ calls[i].pc = "respond"
           /\ calls' =
                  [calls EXCEPT
                      ![i].pc = "logger",
                      ![i].w =
                          IF calls[i].op \notin
                                 {"users.UpdateUser",
                                  "users.UpdateUser (local User)"}
                             THEN Handler(calls[i].op, calls[i].r,
                                          calls[i].n).w
                          ELSE IF ve # << >>
                             THEN IF e.err
                                     THEN Error(e.w,
                                             "Unable to encode error response",
                                             StatusInternalServerError)
                                     ELSE e.w
                          ELSE SendJSON(@, JSONAPI, StatusCreated,
                                        Doc("user", user),
                                        "Unable to encode JSON")]
           /\ UNCHANGED <<req, w, ret, stdout, nextID, served, hist, prior,
                          route, validate>>

\* middleware.Logger: when the handler has returned it prints one line
\* with the method, the path and the status the handler committed
middleware_Logger ==
    \E i \in 1..MaxInFlight :
        /\ calls[i].pc = "logger"
        /\ stdout' = Append(stdout,
                            [log |-> [status |-> calls[i].w.status,
                                      method |-> calls[i].method,
                                      path |-> calls[i].path]])
        /\ calls' = [calls EXCEPT
                         ![i].pc = IF calls[i].w.status = 0
                                      THEN "finish" ELSE "done"]
        /\ UNCHANGED <<req, w, ret, nextID, served, hist, prior, route,
                       validate>>

\* net/http, when ServeHTTP has returned: the response is completed, with
\* status 200 when the handler committed none; there is nothing left to do
\* for a response whose status is committed
finishRequest ==
    \E i \in 1..MaxInFlight :
        /\ calls[i].pc = "finish"
        /\ calls' = [calls EXCEPT
                         ![i].pc = "done",
                         ![i].w = FinishRequest(Done(@, << >>, 0))]
        /\ UNCHANGED <<req, w, ret, stdout, nextID, served, hist, prior,
                       route, validate>>

ConcNext ==
    \/ ServeConn
    \/ UpdateUser_Decode
    \/ validate_Struct
    \/ extractStructCache
    \/ uuid_NewV7
    \/ Handler_Printf
    \/ WriteResponse
    \/ middleware_Logger
    \/ finishRequest

Next ==
    \/ DoUserHandlerGetUsers
    \/ DoUserHandlerGetUser
    \/ DoUserHandlerEditUser
    \/ DoUserHandlerCreateUser
    \/ DoUserHandlerDeleteUser
    \/ DoArticleHandlerGetArticles
    \/ DoArticleHandlerGetArticle
    \/ DoArticleHandlerCreateArticle
    \/ DoArticleHandlerEditArticle
    \/ DoArticleHandlerDeleteArticle
    \/ DoCommentHandlerGetComments
    \/ DoCommentHandlerAddComment
    \/ DoCommentsGetCommentFromArticle
    \/ DoCommentHandlerRemoveComment
    \/ DoCommentHandlerGetAllComments
    \/ DoCommentHandlerGetCommentsFromArticle
    \/ DoCommentHandlerAddCommentToArticle
    \/ DoCommentHandlerDeleteCommentFromArticle
    \/ DoUsersGetUsers
    \/ DoUsersGetUser
    \/ DoUsersUpdateUser
    \/ DoUsersDeleteUser
    \/ DoUsersGetUsersHandler
    \/ DoUserGetUserHandler
    \/ DoMainHandler
    \/ DoDocsDocsHandler
    \/ DoCommentsGetComments
    \/ DoArticlesGetArticles
    \/ DoArticlesEditArticle
    \/ DoArticlesDeleteArticle
    \/ DoArticlesGetArticle
    \/ DoArticlesCreateArticle
    \/ DoCommentsAddComment
    \/ DoCommentsRemoveComment
    \/ CallUserServiceGetAllUsers
    \/ CallUserServiceGetUserByID
    \/ CallUserServiceCreateUser
    \/ CallUserServiceUpdateUser
    \/ CallUserServiceDeleteUser
    \/ CallCommentServiceGetAllComments
    \/ CallCommentServiceGetCommentsFromArticle
    \/ CallCommentServiceAddCommentToArticle
    \/ CallCommentServiceDeleteCommentFromArticle
    \/ CallArticleServiceGetAllArticles
    \/ CallArticleServiceGetArticleByID
    \/ CallArticleServiceCreateArticle
    \/ CallArticleServiceUpdateArticle
    \/ CallArticleServiceDeleteArticle

Spec == Init /\ [][Next]_vars

ConcSpec == ConcInit /\ [][ConcNext]_vars

TypeOK ==
    /\ served \in 0..MaxRequests
    /\ nextID \in 0..(served + Cardinality({i \in 1..MaxInFlight :
                                                calls[i].pc # "idle"}))
    /\ \A i \in 1..MaxInFlight :
           calls[i].pc \in {"idle", "decode", "validate", "extract", "newv7",
                            "printf", "respond", "logger", "finish", "done"}
    /\ req.gen \in {0, 1}
    /\ w.status \in {0, StatusOK, StatusCreated, StatusNoContent,
                     StatusBadRequest, StatusNotFound,
                     StatusMethodNotAllowed, StatusUnprocessableEntity,
                     StatusInternalServerError}
    /\ req.body \in BodyIx
    /\ hist.ev \in {"none", "created", "deleted"}

(***************************************************************************)
(* Vocabulary of the properties                                            *)
(***************************************************************************)
Handled == req.layer = "handler"

Called == req.layer = "service"

\* the path identifier is no UUID
BadID == Parse(req.id).err

\* the request body as the handler's resource kind decodes it
Decoded == Decode(Bodies[req.body], ZeroOf(req.kind), SchemaOf(req.kind))

\* validate:"..." tags declared for a resource kind
RulesOf(kind) == IF kind = "user" THEN UserRules ELSE NoRules

\* the fields of the decoded body that break at least one of their rules
ViolatedFields ==
    {RulesOf(req.kind)[i].field : i \in
        {j \in 1..Len(RulesOf(req.kind)) :
            \E k \in 1..Len(RulesOf(req.kind)[j].tags) :
                TagFails(RulesOf(req.kind)[j].tags[k],
                         Decoded.val[RulesOf(req.kind)[j].field])}}

\* the operation succeeded and returned a resource (or a list)
Returned ==
    \/ Handled /\ IsSuccess(w.status) /\ HasDoc(w) /\ DocOf(w).key # "errors"
    \/ Called /\ ~ret.err

Resource == IF Handled THEN DocOf(w).val ELSE ret.val

\* the operation reported that the resource does not exist
NotFound ==
    \/ Handled /\ w.status = StatusNotFound
    \/ Called /\ ret.err

\* what the client of operation op receives for request r when n
\* identifiers have been generated: the handler runs and the server
\* completes the response
Serve(op, r, n) ==
    [Handler(op, r, n) EXCEPT !.w = FinishRequest(Handler(op, r, n))]

\* the request of the current state, with the given failures injected
Rerun(genFail, broken) ==
    Serve(req.op, Rq(req.id, req.body, genFail, broken), nextID - req.gen)

\* the request was served by a connection that works and an identifier
\* generator that works
Healthy == ~req.broken /\ ~req.genFail

(***************************************************************************)
(* C1: Get, Update and Delete answer a path identifier that is no UUID     *)
(* with 404 whatever the body is, and do nothing after the 404: no second  *)
(* status, no second write, no mock delete.                                *)
(***************************************************************************)
C1_InvalidIdIsNotFound ==
    (Handled /\ req.cls \in {"Get", "Update", "Delete"} /\ BadID)
        => /\ w.status = StatusNotFound
           /\ w.extra = 0
           /\ Len(w.body) <= 1
           /\ stdout = << >>

(***************************************************************************)
(* C2: a Create or Update payload in which N >= 1 fields violate their     *)
(* constraints is answered with 422 and a list of exactly N validation     *)
(* errors, one for each violated field.                                    *)
(***************************************************************************)
C2_AllViolationsListed ==
    (/\ Handled
     /\ req.cls \in {"Create", "Update"}
     /\ ~req.broken
     /\ ~Decoded.err
     /\ (req.cls = "Update" => ~BadID)
     /\ ViolatedFields # {})
        => /\ w.status = StatusUnprocessableEntity
           /\ HasDoc(w)
           /\ DocOf(w).key = "errors"
           /\ Len(DocOf(w).val) = Cardinality(ViolatedFields)
           /\ {DocOf(w).val[i].Source.Pointer : i \in 1..Len(DocOf(w).val)}
                = {"/data/attributes/" \o f : f \in ViolatedFields}

(***************************************************************************)
(* C3: a Create whose body cannot be decoded is answered with 400 and no   *)
(* identifier is generated for it.                                         *)
(***************************************************************************)
C3_UnparsableCreateIsBadRequest ==
    (Handled /\ req.cls = "Create" /\ Decoded.err)
        => (w.status = StatusBadRequest /\ req.gen = 0)

(***************************************************************************)
(* C4: a successful Create returns a non-empty identifier that the Create  *)
(* before it did not return, and a Get of that identifier then returns the *)
(* submitted field values.                                                 *)
(***************************************************************************)
C4_CreateThenGetRoundTrip ==
    /\ (req.cls = "Create" /\ Returned)
          => (Resource.ID \notin {"", Nil} /\ ~prior.reissued)
    /\ (req.cls = "Get" /\ prior.stored # NoFields /\ ~req.broken)
          => (Returned /\ Fields(Resource) = prior.stored)

(***************************************************************************)
(* C5: once a Delete of an identifier succeeded, every later Delete of     *)
(* the same identifier reports NotFound.                                   *)
(***************************************************************************)
C5_SecondDeleteIsNotFound ==
    (req.cls = "Delete" /\ prior.retired) => NotFound

(***************************************************************************)
(* C6: once a Delete of an identifier succeeded, every later Get of that   *)
(* identifier reports NotFound, whatever was created or updated since.     *)
(***************************************************************************)
C6_DeletedStaysGone ==
    (req.cls = "Get" /\ prior.retired) => NotFound

(***************************************************************************)
(* C7: the identifier of a created resource is the one uuid.NewV7 produced *)
(* while the request was served, never the "id" of the request body; a     *)
(* successful Update returns the path identifier (as a UUID where the      *)
(* handler parses it, as the path text where it does not), never the "id"  *)
(* of the body.                                                            *)
(***************************************************************************)
C7_IdentifierChosenByServer ==
    /\ (Handled /\ req.cls = "Create" /\ Returned)
          => /\ req.gen = 1
             /\ Resource.ID = V7(nextID)
             /\ ("id" \in DOMAIN Bodies[req.body].obj
                    => Resource.ID # Bodies[req.body].obj.id.v)
    /\ (Handled /\ req.cls = "Update" /\ Returned)
          => /\ Resource.ID \in {Parse(req.id).uuid, req.id}
             /\ (("id" \in DOMAIN Bodies[req.body].obj
                  /\ Bodies[req.body].obj.id.v
                         \notin {Parse(req.id).uuid, req.id})
                    => Resource.ID # Bodies[req.body].obj.id.v)

\* an article was created from a body that carries an "id", and an Update
\* of another path identifier with the same body has succeeded after it
C7_Witness ==
    /\ Handled
    /\ Returned
    /\ req.cls = "Update"
    /\ req.kind = "article"
    /\ req.id = OtherUUID
    /\ "id" \in DOMAIN Bodies[req.body].obj
    /\ Bodies[req.body].obj.id.v = ClientUUID
    /\ hist.ev = "created"
    /\ hist.layer = "handler"
    /\ hist.kind = "article"
    /\ hist.id = V7(1)
    /\ hist.fields.Title = Bodies[req.body].obj.title.v

(***************************************************************************)
(* C8: a successful Update returns the path identifier and, for every      *)
(* editable field, the value of the body, at the handler and at the        *)
(* service layer.                                                          *)
(***************************************************************************)
C8_UpdateReturnsPathIdAndBody ==
    (req.cls = "Update" /\ Returned)
        => IF Handled
              THEN /\ Resource.ID = Parse(req.id).uuid
                   /\ Fields(Resource) = Submitted(req.kind, req.body)
              ELSE /\ Resource.ID = req.id
                   /\ Fields(Resource) = req.args

(***************************************************************************)
(* C9: a successful Get returns one resource under the kind key whose      *)
(* identifier is the requested one, at the handler and at the service      *)
(* layer.                                                                  *)
(***************************************************************************)
C9_GetReturnsRequestedId ==
    (req.cls = "Get" /\ Returned)
        => IF Handled
              THEN /\ w.status = StatusOK
                   /\ DocOf(w).key = req.kind
                   /\ Resource.ID = Parse(req.id).uuid
              ELSE Resource.ID = req.id

(***************************************************************************)
(* C10: the resources of one List response carry pairwise distinct         *)
(* identifiers.                                                            *)
(***************************************************************************)
C10_ListIdsDistinct ==
    (req.cls = "List" /\ Returned)
        => \A i \in 1..Len(Resource), j \in 1..Len(Resource) :
               i # j => Resource[i].ID # Resource[j].ID

(***************************************************************************)
(* C11: listing the users is read-only and deterministic: it answers 200,  *)
(* and when the same list was served by the request before, it returns the *)
(* same users with the same id, name and email at each position.           *)
(***************************************************************************)
C11_ListUsersIsDeterministic ==
    (Handled /\ req.cls = "List" /\ req.kind = "user")
        => /\ w.status = StatusOK
           /\ (prior.relisted /\ ~req.broken)
                 => (HasDoc(w) /\ DocOf(w).val = prior.listed)

(***************************************************************************)
(* C12: a handler that has answered with an error status (400, 404, 422,   *)
(* 500) has written one response and stopped: no second status, no header  *)
(* set after the commit, one body at most, and no success document in it.  *)
(***************************************************************************)
C12_ErrorEndsTheRequest ==
    (Handled /\ w.status \in {StatusBadRequest, StatusNotFound,
                              StatusUnprocessableEntity,
                              StatusInternalServerError})
        => /\ w.extra = 0
           /\ w.hdr = w.ctype
           /\ Len(w.body) <= 1
           /\ \A i \in 1..Len(w.body) :
                  "json" \in DOMAIN w.body[i]
                      => /\ "key" \in DOMAIN w.body[i].json
                         /\ w.body[i].json.key = "errors"
           /\ stdout = << >>

(***************************************************************************)
(* C13: when the encoding of a success response fails, the response has    *)
(* status 500: the success status is not committed before the failure is   *)
(* known.                                                                  *)
(***************************************************************************)
C13_EncodeFailureIs500 ==
    (/\ Handled
     /\ req.broken
     /\ IsSuccess(Rerun(req.genFail, FALSE).w.status)
     /\ HasDoc(Rerun(req.genFail, FALSE).w))
        => w.status = StatusInternalServerError

(***************************************************************************)
(* C14: when uuid.NewV7 fails while a List or a Create is served, the      *)
(* answer is 500, for every resource kind; never 404 or another 4xx.       *)
(***************************************************************************)
C14_GeneratorFailureIs500 ==
    (/\ Handled
     /\ req.cls \in {"List", "Create"}
     /\ req.genFail
     /\ Rerun(FALSE, req.broken).gen = 1)
        => w.status = StatusInternalServerError

\* the texts a handler passed to http.Error together with status 500
Messages500(rw) ==
    {rw.errs[i].msg : i \in {j \in 1..Len(rw.errs) :
                                rw.errs[j].code = StatusInternalServerError}}

(***************************************************************************)
(* C15: the body of a 500 response is one fixed message: when the request  *)
(* fails once with a failing identifier generator (the service error) and  *)
(* once with a failing encoder, both runs report the same text.            *)
(***************************************************************************)
C15_ServerErrorBodyIsGeneric ==
    (/\ Handled
     /\ Messages500(Rerun(TRUE, FALSE).w) # {}
     /\ Messages500(Rerun(FALSE, TRUE).w) # {})
        => Messages500(Rerun(TRUE, FALSE).w) = Messages500(Rerun(FALSE, TRUE).w)

\* the user handlers that call validate.Struct
ValidatingUserOps ==
    {"UserHandler.CreateUser", "UserHandler.EditUser", "users.UpdateUser",
     "users.UpdateUser (local User)"}

\* the decoded user payload is valid: a name of five characters or more and
\* a well-formed email address
ValidUser == Len(Decoded.val.Name) >= 5 /\ IsEmail(Decoded.val.Email)

(***************************************************************************)
(* C16: a user payload is accepted by Create and Update exactly when the   *)
(* name has at least 5 characters and the email is well formed; a rejected *)
(* payload is answered 422, and {"name":"Jo","email":"not-an-email"} with  *)
(* a list of 2 errors, one for the name and one for the email.             *)
(***************************************************************************)
C16_UserRulesAreExact ==
    (/\ Handled
     /\ req.op \in ValidatingUserOps
     /\ Healthy
     /\ ~Decoded.err
     /\ (req.cls = "Update" => ~BadID))
        => /\ Returned <=> ValidUser
           /\ ~ValidUser => w.status = StatusUnprocessableEntity
           /\ (Decoded.val.Name = "Jo" /\ Decoded.val.Email = "not-an-email")
                 => /\ HasDoc(w)
                    /\ DocOf(w).key = "errors"
                    /\ {DocOf(w).val[i].Source.Pointer :
                           i \in 1..Len(DocOf(w).val)}
                         = {"/data/attributes/Name", "/data/attributes/Email"}
                    /\ Len(DocOf(w).val) = 2

\* a JSON document with the identifier values blanked
AnonDoc(d) ==
    CASE "key" \notin DOMAIN d -> d
      [] d.key \in {"user", "article", "comment"} ->
             [d EXCEPT !.val.ID = ""]
      [] d.key \in {"users", "articles", "comments"} ->
             [d EXCEPT !.val = [i \in 1..Len(@) |-> [@[i] EXCEPT !.ID = ""]]]
      [] OTHER -> d

\* a response with the identifier values blanked
Anon(rw) ==
    [rw EXCEPT !.body = [i \in 1..Len(@) |->
                            IF "json" \in DOMAIN @[i]
                               THEN [json |-> AnonDoc(@[i].json)]
                               ELSE @[i]]]

(***************************************************************************)
(* C17: a Delete of a syntactically valid identifier answers 204 with an   *)
(* empty body, for every resource kind.                                    *)
(***************************************************************************)
C17_DeleteIsNoContent ==
    (Handled /\ req.cls = "Delete" /\ ~BadID)
        => /\ w.status = StatusNoContent
           /\ w.body = << >>
           /\ w.extra = 0
           /\ w.errs = << >>

\* an article was deleted after a Delete of a user or a comment had been
\* served
C17_Witness ==
    /\ Handled
    /\ req.op = "ArticleHandler.DeleteArticle"
    /\ ~BadID
    /\ w.status = StatusNoContent
    /\ hist.ev = "deleted"
    /\ hist.kind \in {"user", "comment"}

(***************************************************************************)
(* C18: the handlers share no mutable state that reaches a response: when  *)
(* requests are served at the same time, in whatever order their steps are *)
(* taken, the status, the headers and the body of each response,           *)
(* identifier values aside, are those the same request gets when it is     *)
(* served alone by a server that has served nothing before.                *)
(***************************************************************************)
C18_NoSharedState ==
    \A i \in 1..MaxInFlight :
        calls[i].pc = "done"
            => Anon(calls[i].w) = Anon(Serve(calls[i].op, calls[i].r, 0).w)

\* two updates with different bodies were in flight together: the second
\* call had decoded its body and not left validate.Struct when the first
\* entered it, the validator cached the struct type, one call was answered
\* 422 and the other 201, and the logger printed a line for each
C18_Witness ==
    /\ calls[1].pc = "done"
    /\ calls[2].pc = "done"
    /\ calls[1].op = "users.UpdateUser"
    /\ calls[2].op = "users.UpdateUser"
    /\ calls[1].overlap
    /\ calls[1].r.body # calls[2].r.body
    /\ calls[1].w.status = StatusUnprocessableEntity
    /\ calls[2].w.status = StatusCreated
    /\ validate.structCache # {}
    /\ Len(stdout) = 2

(***************************************************************************)
(* C19: no handler panics, whatever the path identifier (a UUID, a text    *)
(* that is none, the empty text) and the body (absent, not JSON, null, an  *)
(* object that breaks the rules, an object that keeps them) are: the       *)
(* handler returns, so that the server sends a response with a status, and *)
(* the conversion of the validator's error into the list of field errors   *)
(* never fails.                                                            *)
(***************************************************************************)
C19_NoPanic ==
    Handled
        => /\ \A i \in 1..Len(stdout) : "panic" \notin DOMAIN stdout[i]
           /\ w.status # 0

\* the body was the literal null: it was decoded without an error into the
\* zero User, and the validator's error about its two empty fields was
\* converted into a list of two field errors
C19_Witness ==
    /\ Handled
    /\ req.op \in {"users.UpdateUser", "users.UpdateUser (local User)"}
    /\ ~BadID
    /\ Bodies[req.body].kind = "null"
    /\ w.status = StatusUnprocessableEntity
    /\ HasDoc(w)
    /\ DocOf(w).key = "errors"
    /\ Len(DocOf(w).val) = 2

(***************************************************************************)
(* C20: an Update checks the identifier, then the body syntax, then the    *)
(* fields of the decoded payload: an identifier that is no UUID gives 404; *)
(* otherwise a body that cannot be decoded gives 400; otherwise a payload  *)
(* that violates a constraint gives 422; otherwise the update succeeds.    *)
(* One response is written in each case.                                   *)
(***************************************************************************)
C20_UpdateCheckOrder ==
    (Handled /\ req.cls = "Update" /\ ~req.broken)
        => /\ IF BadID THEN w.status = StatusNotFound
              ELSE IF Decoded.err THEN w.status = StatusBadRequest
              ELSE IF ViolatedFields # {}
                 THEN w.status = StatusUnprocessableEntity
              ELSE Returned
           /\ w.extra = 0
           /\ Len(w.body) = 1

(***************************************************************************)
(* C21: a Create or an Update that is rejected with 400 or 422 has no      *)
(* effect: no identifier is generated, no service is called, nothing is    *)
(* printed and no resource is part of the response.                        *)
(***************************************************************************)
C21_RejectedHasNoEffect ==
    (/\ Handled
     /\ req.cls \in {"Create", "Update"}
     /\ w.status \in {StatusBadRequest, StatusUnprocessableEntity})
        => /\ req.gen = 0
           /\ stdout = << >>
           /\ \A i \in 1..Len(w.body) :
                  "json" \in DOMAIN w.body[i]
                      => /\ "key" \in DOMAIN w.body[i].json
                         /\ w.body[i].json.key = "errors"

\* a rejected Create is the second request served and no identifier has
\* been generated so far
C21_Witness ==
    /\ Handled
    /\ served >= 2
    /\ req.cls = "Create"
    /\ w.status \in {StatusBadRequest, StatusUnprocessableEntity}
    /\ nextID = 0

(***************************************************************************)
(* C22: a response that carries an errors list has HTTP status 422 and a   *)
(* list that is not empty; each entry has status 422, the title "Invalid   *)
(* Attribute", the pointer /data/attributes/<field> of a field of the      *)
(* decoded body that breaks one of its rules, and a detail that names a    *)
(* broken rule of that field and the field.  A 422 of a handler that       *)
(* builds such a list carries it whenever the body could be written.       *)
(***************************************************************************)
ErrorListOps == {"users.UpdateUser", "users.UpdateUser (local User)"}

\* the rules of a field that the decoded body breaks, by the validator's name
BrokenRules(f) ==
    UNION {{(IF UserRules[i].tags[k] = "min=5" THEN "min"
             ELSE UserRules[i].tags[k]) :
               k \in {j \in 1..Len(UserRules[i].tags) :
                         TagFails(UserRules[i].tags[j], Decoded.val[f])}} :
           i \in {j \in 1..Len(UserRules) : UserRules[j].field = f}}

C22_ValidationEntriesWellFormed ==
    /\ (Handled /\ HasDoc(w) /\ DocOf(w).key = "errors")
          => /\ w.status = StatusUnprocessableEntity
             /\ Len(DocOf(w).val) >= 1
             /\ \A i \in 1..Len(DocOf(w).val) :
                    LET e == DocOf(w).val[i]
                    IN /\ e.Status = StatusUnprocessableEntity
                       /\ e.Title = "Invalid Attribute"
                       /\ \E f \in ViolatedFields :
                              /\ e.Source.Pointer = "/data/attributes/" \o f
                              /\ \E t \in BrokenRules(f) :
                                     e.Detail =
                                         "'" \o t
                                         \o "' validation failed for field: '"
                                         \o f \o "'"
    /\ (/\ Handled
        /\ req.op \in ErrorListOps
        /\ w.status = StatusUnprocessableEntity
        /\ ~req.broken)
          => HasDoc(w) /\ DocOf(w).key = "errors"

\* a 422 whose list has one entry for the name and one for the email
C22_Witness ==
    /\ Handled
    /\ req.op = "users.UpdateUser"
    /\ w.status = StatusUnprocessableEntity
    /\ HasDoc(w)
    /\ Len(DocOf(w).val) = 2
    /\ DocOf(w).val[1].Source.Pointer = "/data/attributes/Name"
    /\ DocOf(w).val[2].Source.Pointer = "/data/attributes/Email"

(***************************************************************************)
(* C23: a service operation whose identifier generation fails returns an   *)
(* error, and no service operation that returns a single resource returns  *)
(* the zero value of the resource together with a nil error.               *)
(***************************************************************************)
C23_GeneratorFailureIsReported ==
    (Called /\ req.cls \in {"Get", "Create", "Update"})
        => /\ (req.cls = "Create" /\ req.genFail) => ret.err
           /\ ~ret.err => ret.val.ID # Nil

(***************************************************************************)
(* C24: ArticleHandler.CreateArticle answers a payload it can decode with  *)
(* 201 and an article that has the submitted title and author and is not   *)
(* published, whatever the payload's published member says; an article     *)
(* returned by ArticleHandler.EditArticle has the submitted published      *)
(* value.                                                                  *)
(***************************************************************************)
\* the text of a string member of the request body, "" when it has none
SubmittedText(key) ==
    IF Bodies[req.body].kind = "object" /\ key \in DOMAIN Bodies[req.body].obj
       THEN Bodies[req.body].obj[key].v
       ELSE ""

\* the payload says "published": true
SubmittedPublished ==
    /\ Bodies[req.body].kind = "object"
    /\ "published" \in DOMAIN Bodies[req.body].obj
    /\ Bodies[req.body].obj.published.v = "true"

C24_CreatedArticleIsUnpublished ==
    /\ (/\ Handled
        /\ req.op = "ArticleHandler.CreateArticle"
        /\ ~Decoded.err
        /\ ~req.genFail)
          => /\ w.status = StatusCreated
             /\ HasDoc(w) => /\ DocOf(w).key = "article"
                             /\ Resource.Title = SubmittedText("title")
                             /\ Resource.Author = SubmittedText("author")
                             /\ Resource.Published = FALSE
    /\ (Handled /\ req.op = "ArticleHandler.EditArticle" /\ Returned)
          => Resource.Published = SubmittedPublished

\* a payload with "published": true was created as an unpublished article
C24_Witness ==
    /\ Handled
    /\ req.op = "ArticleHandler.CreateArticle"
    /\ SubmittedPublished
    /\ Returned
    /\ Resource.Title = "On Go"
    /\ ~Resource.Published

\* EditArticle returned an article that is published, as submitted
C24_EditWitness ==
    /\ Handled
    /\ req.op = "ArticleHandler.EditArticle"
    /\ SubmittedPublished
    /\ Returned
    /\ Resource.Published

(***************************************************************************)
(* C25: every successful Update of one resource kind has the same status:  *)
(* whichever handler of that kind serves whichever request, if it succeeds *)
(* its status is the status of the successful Update just served.          *)
(***************************************************************************)
UpdateOps(kind) ==
    IF kind = "article"
       THEN {"ArticleHandler.EditArticle", "articles.EditArticle"}
       ELSE {"UserHandler.EditUser", "users.UpdateUser",
             "users.UpdateUser (local User)", "users.UpdateUser (early)"}

C25_UpdateStatusIsFixed ==
    (Handled /\ req.cls = "Update" /\ IsSuccess(w.status))
        => \A op \in UpdateOps(req.kind), r \in UpdateReqs :
               LET other == Serve(op, r, nextID).w
               IN IsSuccess(other.status) => other.status = w.status

(***************************************************************************)
(* C26: a list handler that sends a list sends it with status 200 and a    *)
(* JSON Content-Type, and sets neither after the body has begun: the       *)
(* committed Content-Type is the one the handler set and no WriteHeader    *)
(* call comes after the commit.                                            *)
(***************************************************************************)
JSONTypes == {"application/json", JSONAPI}

C26_ListHeadersBeforeBody ==
    (Handled /\ req.cls = "List" /\ Healthy /\ HasDoc(w))
        => /\ w.status = StatusOK
           /\ w.ctype \in JSONTypes
           /\ w.hdr = w.ctype
           /\ w.extra = 0

(***************************************************************************)
(* C27: on a working connection with a working generator, a handler that   *)
(* retrieves the comments of an article answers 200 with a JSON object     *)
(* whose key is "comments", and there are two article identifiers for      *)
(* which it returns different comments.                                    *)
(***************************************************************************)
CommentsOfArticleOps ==
    {"CommentHandler.GetCommentsFromArticle",
     "CommentHandler.GetCommentsFromArticle (stub)",
     "comments.GetCommentFromArticle"}

\* what the handler of the current request sends for the article id
CommentsOf(id) == Serve(req.op, Rq(id, req.body, FALSE, FALSE), 0).w.body

C27_CommentsOfTheArticle ==
    (Handled /\ req.op \in CommentsOfArticleOps /\ Healthy)
        => /\ w.status = StatusOK
           /\ HasDoc(w)
           /\ DocOf(w).key = "comments"
           /\ CommentsOf(ClientUUID) # CommentsOf(OtherUUID)

(***************************************************************************)
(* C28: the handlers that create or update an Article or a Comment never   *)
(* answer 422, and they answer 201 to every JSON object the decoder can    *)
(* parse into the resource, its fields all empty or absent included (for   *)
(* an update the path carries a UUID; the generator and the connection     *)
(* work).                                                                  *)
(***************************************************************************)
UnconstrainedOps ==
    {"ArticleHandler.CreateArticle", "ArticleHandler.EditArticle",
     "CommentHandler.AddComment", "CommentHandler.AddCommentToArticle"}

C28_NoConstraintsNo422 ==
    (Handled /\ req.op \in UnconstrainedOps)
        => /\ w.status # StatusUnprocessableEntity
           /\ (/\ Bodies[req.body].kind = "object"
               /\ ~Decoded.err
               /\ Healthy
               /\ (req.cls = "Update" => ~BadID))
                 => w.status = StatusCreated

\* an object none of whose members fills a field of the comment was
\* answered 201 with a comment whose fields are empty
C28_Witness ==
    /\ Handled
    /\ req.op = "CommentHandler.AddComment"
    /\ Bodies[req.body].kind = "object"
    /\ Decoded.val = ZeroComment
    /\ w.status = StatusCreated
    /\ Returned
    /\ Resource.Content = ""

(***************************************************************************)
(* C29: a POST to /users/new reaches the handler that creates a user and a *)
(* PUT to /users/{id}/edit the handler that updates one, likewise for the  *)
(* articles, and the route table has a route to each of the five           *)
(* operations of the users and of the articles.                            *)
(***************************************************************************)
\* the operation a handler implements
OperationOf ==
    {<<"UserHandler.GetAllUsers", "user", "List">>,
     <<"UserHandler.GetUserByID", "user", "Get">>,
     <<"UserHandler.CreateUser", "user", "Create">>,
     <<"UserHandler.UpdateUser", "user", "Update">>,
     <<"UserHandler.DeleteUser", "user", "Delete">>,
     <<"ArticleHandler.GetAllArticles", "article", "List">>,
     <<"ArticleHandler.GetArticleByID", "article", "Get">>,
     <<"ArticleHandler.CreateArticle", "article", "Create">>,
     <<"ArticleHandler.UpdateArticle", "article", "Update">>,
     <<"ArticleHandler.DeleteArticle", "article", "Delete">>,
     <<"users.GetUsers", "user", "List">>,
     <<"users.GetUsersHandler", "user", "List">>,
     <<"users.GetUser", "user", "Get">>,
     <<"users.UpdateUser", "user", "Update">>,
     <<"users.DeleteUser", "user", "Delete">>,
     <<"articles.GetArticles", "article", "List">>,
     <<"articles.GetArticle", "article", "Get">>,
     <<"articles.CreateArticle", "article", "Create">>,
     <<"articles.EditArticle", "article", "Update">>,
     <<"articles.DeleteArticle", "article", "Delete">>}

Reaches(kind, cls) == <<route.handler, kind, cls>> \in OperationOf

TableOf(table) ==
    CASE table = "SetupRoutes" -> SetupRoutes
      [] table = "MountHandlers" -> MountHandlers
      [] table = "MountHandlers (flat)" -> MountHandlers_Flat

\* the path /<resource>/<id>/edit of the request
EditPath(resource) ==
    /\ Len(route.path) = 3
    /\ route.path[1] = resource
    /\ route.path[3] = "edit"

C29_RoutesReachOperations ==
    route.handler # ""
        => /\ (route.method = "POST" /\ route.path = <<"users", "new">>)
                 => Reaches("user", "Create")
           /\ (route.method = "PUT" /\ EditPath("users"))
                 => Reaches("user", "Update")
           /\ (route.method = "POST" /\ route.path = <<"articles", "new">>)
                 => Reaches("article", "Create")
           /\ (route.method = "PUT" /\ EditPath("articles"))
                 => Reaches("article", "Update")
           /\ \A kind \in {"user", "article"},
                 cls \in {"List", "Get", "Create", "Update", "Delete"} :
                  \E r \in TableOf(route.table) :
                      <<r.handler, kind, cls>> \in OperationOf

====
